---- MODULE Spec2Model ----
(***************************************************************************)
(* North Star: the Hybrid Memory Retrieval stores.                         *)
(*                                                                         *)
(* The repository holds two generations of each store:                     *)
(*   - SessionGraph, file-backed  (sessionGraph.ts 33-127): a Map of nodes *)
(*     and an array of edges, traversed depth-first;                       *)
(*   - SessionGraph, SQLite-backed (sessionGraph.ts 161-281): the tables   *)
(*     graph_nodes / graph_edges, traversed breadth-first;                 *)
(*   - VectorStore, in-memory (keywordSearch.ts 115-207) and SQLite-backed *)
(*     (unnamed/part_001);                                                 *)
(*   - ContextBridge (unnamed/part_004), which owns the stores, the        *)
(*     message list and the immediate context.                             *)
(* `backend` says which generation a behaviour runs; it is fixed by the    *)
(* construction of the ContextBridge.                                      *)
(***************************************************************************)
EXTENDS Integers, Sequences, FiniteSets, TLC

VARIABLES
    backend,        \* "file" | "sqlite": which generation of the stores is built
    foreignKeys,    \* SQLite build option: are the schema's FOREIGN KEYs enforced
    strictBind,     \* SQLite driver: does a statement run with too few bound values throw
    dbOpen,         \* SQLiteManager.db is set: initialize() opened the database
    nodes,          \* file-backed SessionGraph.nodes (Map, in insertion order)
    edges,          \* file-backed SessionGraph.edges (array)
    graph_nodes,    \* SQLite table graph_nodes, in rowid order
    graph_edges,    \* SQLite table graph_edges, in rowid order
    graphFile,      \* file-backed: the persisted graph-nodes.json
    entries,        \* in-memory VectorStore.entries (array)
    vectorStoreState, \* in-memory VectorStore: globalState key 'vectorStore'
    vectors,        \* SQLite table vectors, in rowid order
    extractor,      \* LocalEmbeddingModel.extractor: "null" | "loaded"
    messages,       \* ContextBridge.messages
    immediateMessages, \* ImmediateContext.messages
    sessionFile,    \* FileStorage: the persisted session-state file
    keywordMessages, \* KeywordSearch.messages
    objectives,     \* ObjectiveTracker.objectives (the statements, all active)
    highlights,     \* HighlightExtractor.highlights
    objects,        \* the heap: the JSON value each object holds, "free" when unused
    held,           \* the objects the callers of FileStorage hold a reference to
    cache,          \* FileStorage.cache.get(filename): an object, 0 when not cached
    disk,           \* the file `filename` of the storage directory, "absent" when none
    temps,          \* the temporary files, by the Date.now() of their name
    writes,         \* the FileStorage.write calls made, each with its position
    reads,          \* the FileStorage.read calls made, each with its position
    currentModel,   \* ContextBridge.currentModel
    currentAdapter, \* ContextBridge.currentAdapter: the model it was created for
    requests,       \* the sendMessage calls made, each with its position
    switches,       \* the switchModel calls made, each with its position
    isInitializing, \* LocalEmbeddingModel.isInitializing
    embeds,         \* the generateEmbedding calls made, each with its position
    saves,          \* the saveMessages writes in flight: what each one writes
    loads,          \* the loadMessages calls in flight
    restarts,       \* how often the extension was activated again
    now,            \* the clock: Date.now() / new Date()
    idSeq,          \* how many ids EntityExtractor.generateId has produced
    ret             \* the call that has just returned and what it returned

graphVars == <<nodes, edges, graph_nodes, graph_edges, graphFile>>
configVars == <<backend, foreignKeys, strictBind, dbOpen>>
vectorVars == <<entries, vectorStoreState, vectors, extractor>>
trackerVars == <<keywordMessages, objectives, highlights>>
sessionVars == <<messages, immediateMessages, sessionFile, keywordMessages, objectives,
                 highlights>>
clockVars == <<now, idSeq>>
storageVars == <<objects, held, cache, disk, temps, writes, reads>>
bridgeVars == <<currentModel, currentAdapter, requests, switches>>
embedVars == <<isInitializing, embeds>>
reloadVars == <<saves, loads, restarts>>
asyncVars == <<storageVars, bridgeVars, embedVars, reloadVars>>
vars == <<backend, foreignKeys, strictBind, dbOpen, nodes, edges, graph_nodes, graph_edges,
          graphFile, entries, vectorStoreState, vectors, extractor, messages,
          immediateMessages, sessionFile, keywordMessages, objectives, highlights,
          objects, held, cache, disk, temps, writes, reads, currentModel, currentAdapter,
          requests, switches, isInitializing, embeds, saves, loads, restarts, now, idSeq,
          ret>>

----------------------------------------------------------------------------
(* Bounds and input sets                                                   *)

MaxEdges == 4
MaxDepth == 2

NodeType == {"Intent", "Decision", "CodeArtifact", "Error", "Solution", "Preference"}
EdgeType == {"LED_TO", "RESOLVED_BY", "IMPLEMENTED_IN", "CONFLICTS_WITH", "DEPENDS_ON"}

\* The node ids that edges and traversals mention.  "b" and "c" are never
\* added as nodes: an edge that mentions them is dangling.
Ids == {"a", "b", "c", "d"}

\* The GraphNode values handed to addNode.  "d" comes in two versions, so
\* that addNode replaces a node.
NodeInputs ==
    { [id |-> "a", type |-> "Intent",   content |-> "build auth", createdAt |-> 1],
      [id |-> "d", type |-> "Decision", content |-> "use JWT",    createdAt |-> 2],
      [id |-> "d", type |-> "Intent",   content |-> "add login",  createdAt |-> 3] }

\* The GraphEdge values handed to addEdge: the cycle a-b-c-a, a tail c-d and
\* a self-loop.
EdgeInputs ==
    { [from |-> "a", to |-> "b", type |-> "LED_TO",     weight |-> 1],
      [from |-> "b", to |-> "c", type |-> "LED_TO",     weight |-> 1],
      [from |-> "c", to |-> "a", type |-> "DEPENDS_ON", weight |-> 1],
      [from |-> "c", to |-> "d", type |-> "LED_TO",     weight |-> 1],
      [from |-> "d", to |-> "d", type |-> "DEPENDS_ON", weight |-> 1] }

StartInputs == {"a"}

\* nodeTypes?: NodeType[] -- absent, or an array of types
NoFilter == [given |-> FALSE, types |-> {}]
FilterInputs == {NoFilter, [given |-> TRUE, types |-> {"Decision"}]}

TypeInputs == {"Intent", "Decision"}

NoRet == [op |-> "none"]

MaxEntries == 3
MaxK == 2

\* The all-zero vector: `new Array(384).fill(0)`.  Vectors are modelled with
\* two components in place of 384.
ZeroVector == <<0, 0>>

\* The (id, content) pairs handed to VectorStore.add, and the queries handed
\* to search.  "m1" comes with two contents; "jwt" comes under two ids
\* (equal similarity to every query); "" is the empty text.
VectorInputs ==
    { [id |-> "m1", content |-> "jwt"],
      [id |-> "m1", content |-> "note"],
      [id |-> "m2", content |-> "jwt"],
      [id |-> "m2", content |-> ""] }

QueryInputs == {"auth", ""}

MaxMessages == 6

\* ImmediateContext.MAX_MESSAGES
MAX_MESSAGES == 5

\* saveMessages keeps the last 100 messages
SavedMessagesLimit == 100

\* The messages, nodes, edges and entries a session is fed with
MessageInputs == { [role |-> "user", content |-> "use jwt"] }

\* Messages that can be told apart, for the order the layers keep them in
OrderedMessageInputs ==
    { [role |-> "user", content |-> "use jwt"],
      [role |-> "assistant", content |-> "ok"] }

SessionNodeInputs ==
    { [id |-> "a", type |-> "Intent",   content |-> "build auth", createdAt |-> 1],
      [id |-> "d", type |-> "Decision", content |-> "use JWT",    createdAt |-> 2] }

SessionEdgeInputs == { [from |-> "a", to |-> "d", type |-> "LED_TO", weight |-> 1] }

SessionVectorInputs == { [id |-> "m1", content |-> "jwt"] }

MaxItems == 3
MaxBudget == 4

\* TokenBudget.CHARS_PER_TOKEN
CHARS_PER_TOKEN == 4

\* The strings handed to fitToTokenBudget
ItemInputs == {"build auth", "jwt", "note"}

MaxList == 3

\* The content strings of the result lists handed to reciprocalRankFusion
FusionContents == {"build auth", "jwt", "note"}

\* The token budgets and the stores' contents handed to retrieve
BudgetInputs == {-1, 0, 2, 5, 10}

RetrieveNodeInputs ==
    { [id |-> "a", type |-> "Intent",   content |-> "build auth", createdAt |-> 1],
      [id |-> "e", type |-> "Intent",   content |-> "add login",  createdAt |-> 2],
      [id |-> "d", type |-> "Decision", content |-> "use JWT",    createdAt |-> 3] }

RetrieveEdgeInputs == { [from |-> "a", to |-> "d", type |-> "LED_TO", weight |-> 1] }

RetrieveVectorInputs ==
    { [id |-> "m1", content |-> "jwt"],
      [id |-> "m2", content |-> "note"] }

MaxNodes == 3
MaxIds == 4
MaxClock == 3
MaxTurns == 2       \* messages the user sends in one behaviour
MaxObjects == 3     \* objects on the heap
MaxWrites == 2      \* FileStorage.write calls in one behaviour
MaxReads == 1       \* FileStorage.read calls in one behaviour
MaxSwitches == 2    \* switchModel calls in one behaviour
MaxEmbeds == 3      \* generateEmbedding calls in one behaviour
MaxStored == 101    \* messages a session grows to before and after a restart
MaxSaves == 2       \* saveMessages writes in flight at once
MaxRestarts == 1    \* activations after the first

\* The texts embedded while the model loads
EmbedInputs == {"auth", "jwt"}

\* The models the user can switch to
ModelInputs == {"claude", "gemini"}

\* What is sent and answered while the model is switched, as words
SwitchSendInputs == { <<"i", "want", "to", "build", "auth", "then", "tests">>,
                      <<"hello", "there">> }

SwitchReplyInputs == { <<"ok">> }

\* The values handed to FileStorage: "v1" is plain JSON data, "d1" holds a
\* Date, "s1" is "d1" with the Date as its ISO string.
DataInputs == {"v1", "d1"}

\* The message texts handed to the EntityExtractor, as their words
\* (case-folded, one line each).
ContentInputs ==
    { <<"i", "want", "to", "build", "a", "login", "page">>,
      <<"we", "need", "to", "fix", "the", "bug">>,
      <<"created", "auth.ts">>,
      <<"hello", "there">> }

\* The message texts handed to processMessage, as their words
ProcessInputs ==
    { <<"goal", "is", "to", "ship">>,
      <<"i", "want", "to", "build", "auth", "then", "tests">>,
      <<"let's", "use", "jwt", "then", "created", "auth.ts">>,
      <<"then", "created", "auth.ts">> }

\* The texts the user sends and the model adapter replies with, as words
SendInputs ==
    { <<"i", "want", "to", "build", "a", "login", "page">>,
      <<"let's", "use", "jwt", "then", "created", "auth.ts">>,
      <<"hello", "there">> }

ReplyInputs == { <<"ok">>, <<"we", "should", "use", "jwt">> }

\* The current adapter: none built, one that answers, one whose call fails
AdapterInputs == {"none", "ok", "fails"}

----------------------------------------------------------------------------
(* Helpers                                                                 *)

SeqRange(s) == {s[i] : i \in 1..Len(s)}

\* array.slice(-n)
Last(s, n) == IF Len(s) <= n THEN s ELSE SubSeq(s, Len(s) - n + 1, Len(s))

RECURSIVE SumSeq(_)
SumSeq(q) == IF q = <<>> THEN 0 ELSE Head(q) + SumSeq(Tail(q))

\* Map.get / SELECT ... WHERE id = ?  : the rows of `store` with this id
RowsWithId(store, id) == SelectSeq(store, LAMBDA n : n.id = id)

\* !nodeTypes || nodeTypes.includes(node.type)
PassesFilter(nodeTypes, node) == (~nodeTypes.given) \/ node.type \in nodeTypes.types

\* edge.from === nodeId ? edge.to : edge.from
NextId(edge, nodeId) == IF edge.from = nodeId THEN edge.to ELSE edge.from

----------------------------------------------------------------------------
(* SessionGraph, file-backed (sessionGraph.ts 33-127)                      *)

\* saveToStorage(): { nodes: Array.from(this.nodes.entries()), edges }
SavedGraph(ns, es) == [exists |-> TRUE, nodes |-> ns, edges |-> es]

NoFile == [exists |-> FALSE, nodes |-> <<>>, edges |-> <<>>]

\* Map.set(key, value): a present key keeps its place and takes the new value,
\* a new key goes last.
MapSet(m, node) ==
    IF \E i \in 1..Len(m) : m[i].id = node.id
    THEN [i \in 1..Len(m) |-> IF m[i].id = node.id THEN node ELSE m[i]]
    ELSE Append(m, node)

\* addNode(node): this.nodes.set(node.id, node); this.saveToStorage()
File_addNode(node) ==
    /\ backend = "file"
    /\ ret = NoRet
    /\ nodes' = MapSet(nodes, node)
    /\ graphFile' = SavedGraph(nodes', edges)
    /\ UNCHANGED <<configVars, asyncVars, clockVars, vectorVars, sessionVars, edges, graph_nodes, graph_edges, ret>>

\* addEdge(edge): this.edges.push(edge); this.saveToStorage()
File_edgesPush(es, edge) == Append(es, edge)

File_addEdge(edge) ==
    /\ backend = "file"
    /\ ret = NoRet
    /\ Len(edges) < MaxEdges
    /\ edges' = File_edgesPush(edges, edge)
    /\ graphFile' = SavedGraph(nodes, edges')
    /\ UNCHANGED <<configVars, asyncVars, clockVars, vectorVars, sessionVars, nodes, graph_nodes, graph_edges, ret>>

\* The state the closure dfs shares between its calls: visited, result, and
\* the number of calls made so far.
TraverseStart == [visited |-> {}, result |-> <<>>, calls |-> 0, threw |-> FALSE]

\* this.edges.filter(e => e.from === nodeId || e.to === nodeId)
File_connectedEdges(nodeId) ==
    SelectSeq(edges, LAMBDA e : e.from = nodeId \/ e.to = nodeId)

\* The guard of dfs without its depth test
File_dfsReturns_noDepthTest(st, nodeId, currentDepth, depth) ==
    nodeId \in st.visited

\* The guard of dfs without its visited-set test
File_dfsReturns_noVisitedTest(st, nodeId, currentDepth, depth) ==
    currentDepth > depth

\* if (currentDepth > depth || visited.has(nodeId)) return;
File_dfsReturns(st, nodeId, currentDepth, depth) ==
    currentDepth > depth \/ nodeId \in st.visited

RECURSIVE File_dfs(_, _, _, _, _), File_dfsEdges(_, _, _, _, _, _, _)

\* const dfs = (nodeId, currentDepth) => { ... }   (lines 60-75)
File_dfs(st, nodeId, currentDepth, depth, nodeTypes) ==
    LET entered == [st EXCEPT !.calls = @ + 1] IN
    IF File_dfsReturns(st, nodeId, currentDepth, depth) THEN entered
    ELSE
        LET found == RowsWithId(nodes, nodeId)
            st1 == [entered EXCEPT
                      !.visited = @ \cup {nodeId},
                      !.result = IF Len(found) > 0 /\ PassesFilter(nodeTypes, found[1])
                                 THEN Append(@, found[1]) ELSE @]
        IN File_dfsEdges(st1, File_connectedEdges(nodeId), 1, nodeId,
                         currentDepth, depth, nodeTypes)

\* for (const edge of connectedEdges) dfs(nextId, currentDepth + 1)
File_dfsEdges(st, connected, i, nodeId, currentDepth, depth, nodeTypes) ==
    IF i > Len(connected) THEN st
    ELSE File_dfsEdges(
            File_dfs(st, NextId(connected[i], nodeId), currentDepth + 1, depth, nodeTypes),
            connected, i + 1, nodeId, currentDepth, depth, nodeTypes)

\* traverse(startId, depth, nodeTypes): dfs(startId, 0); return result
File_traverseResult(startId, depth, nodeTypes) ==
    File_dfs(TraverseStart, startId, 0, depth, nodeTypes)

File_traverse(startId, depth, nodeTypes) ==
    /\ backend = "file"
    /\ ret = NoRet
    /\ LET st == File_traverseResult(startId, depth, nodeTypes) IN
       ret' = [op |-> "traverse", startId |-> startId, depth |-> depth,
               nodeTypes |-> nodeTypes, threw |-> st.threw,
               result |-> st.result, calls |-> st.calls]
    /\ UNCHANGED <<configVars, asyncVars, clockVars, vectorVars, sessionVars, graphVars>>

\* getNodesByType(type): Array.from(this.nodes.values()).filter(n => n.type === type)
File_nodesByType(type) == SelectSeq(nodes, LAMBDA n : n.type = type)

File_getNodesByType(type) ==
    /\ backend = "file"
    /\ ret = NoRet
    /\ ret' = [op |-> "getNodesByType", type |-> type, result |-> File_nodesByType(type)]
    /\ UNCHANGED <<configVars, asyncVars, clockVars, vectorVars, sessionVars, graphVars>>

\* clear(): this.nodes.clear(); this.edges = []; this.storage.delete(GRAPH_NODES)
File_clear ==
    /\ backend = "file"
    /\ ret = NoRet
    /\ nodes' = <<>>
    /\ edges' = <<>>
    /\ graphFile' = NoFile
    /\ UNCHANGED <<configVars, asyncVars, clockVars, vectorVars, sessionVars, graph_nodes, graph_edges, ret>>

----------------------------------------------------------------------------
(* SessionGraph, SQLite-backed (sessionGraph.ts 161-281)                   *)

\* A row of graph_edges for a GraphEdge: weight is `edge.weight || 1.0`.
EdgeRow(edge) ==
    [source |-> edge.from, target |-> edge.to, type |-> edge.type,
     weight |-> IF edge.weight = 0 THEN 1 ELSE edge.weight]

SameEdgeKey(r, s) == r.source = s.source /\ r.target = s.target /\ r.type = s.type

NodeIdsIn(rows) == {rows[i].id : i \in 1..Len(rows)}

\* FOREIGN KEY(source/target) REFERENCES graph_nodes(id) ON DELETE CASCADE:
\* deleting the node row `id` deletes the edge rows that reference it.
CascadeDelete(rows, id) ==
    IF foreignKeys THEN SelectSeq(rows, LAMBDA r : r.source # id /\ r.target # id)
    ELSE rows

\* INSERT OR REPLACE INTO graph_nodes: id is the PRIMARY KEY, so a row with
\* the same id is deleted (its edges cascade) and the new row gets a new rowid.
Sql_addNode(node) ==
    /\ backend = "sqlite"
    /\ ret = NoRet
    /\ graph_nodes' = Append(SelectSeq(graph_nodes, LAMBDA n : n.id # node.id), node)
    /\ graph_edges' = IF node.id \in NodeIdsIn(graph_nodes)
                      THEN CascadeDelete(graph_edges, node.id) ELSE graph_edges
    /\ UNCHANGED <<configVars, asyncVars, clockVars, vectorVars, sessionVars, nodes, edges, graphFile, ret>>

\* INSERT OR REPLACE INTO graph_edges: PRIMARY KEY (source, target, type)
Sql_edgesReplace(rows, row) ==
    Append(SelectSeq(rows, LAMBDA r : ~SameEdgeKey(r, row)), row)

\* With foreign keys enforced the insert of an edge whose source or target is
\* no row of graph_nodes fails (the statement throws and changes nothing).
Sql_addEdgeFails(edge) ==
    foreignKeys /\ ~({edge.from, edge.to} \subseteq NodeIdsIn(graph_nodes))

Sql_addEdge(edge) ==
    /\ backend = "sqlite"
    /\ ret = NoRet
    /\ \/ Len(graph_edges) < MaxEdges
       \/ \E i \in 1..Len(graph_edges) : SameEdgeKey(graph_edges[i], EdgeRow(edge))
    /\ IF Sql_addEdgeFails(edge)
       THEN /\ ret' = [op |-> "addEdge", threw |-> TRUE]
            /\ UNCHANGED graph_edges
       ELSE /\ graph_edges' = Sql_edgesReplace(graph_edges, EdgeRow(edge))
            /\ UNCHANGED ret
    /\ UNCHANGED <<configVars, asyncVars, clockVars, vectorVars, sessionVars, nodes, edges, graph_nodes, graphFile>>

\* edgesStmt = 'SELECT * FROM graph_edges WHERE source = ? OR target = ?'
\* (line 212) has two placeholders; edgesStmt.all(id) (line 231) binds one
\* value.  A driver that checks the count throws; one that does not runs the
\* query with id in both places.
Sql_edgesStmtAll(id) ==
    SelectSeq(graph_edges, LAMBDA e : e.source = id \/ e.target = id)

\* edge.source === id ? edge.target : edge.source
Sql_nextId(edge, id) == IF edge.source = id THEN edge.target ELSE edge.source

\* for (const edge of edges) if (!visited.has(nextId)) queue.push(...)
Sql_pushes(rows, id, visited, currentDepth) ==
    LET keep == SelectSeq(rows, LAMBDA e : Sql_nextId(e, id) \notin visited)
    IN [i \in 1..Len(keep) |-> [id |-> Sql_nextId(keep[i], id), depth |-> currentDepth + 1]]

\* if (currentDepth > depth || visited.has(id)) continue;
Sql_bfsSkips(st, item, depth) == item.depth > depth \/ item.id \in st.visited

\* if (currentDepth < depth) { fetch and enqueue the connected edges }
Sql_bfsExpands(currentDepth, depth) == currentDepth < depth

RECURSIVE Sql_bfs(_, _, _, _)

\* while (queue.length > 0) { ... }   (lines 214-239)
Sql_bfs(st, queue, depth, nodeTypes) ==
    IF Len(queue) = 0 THEN st
    ELSE
        LET item == Head(queue)
            rest == Tail(queue)
            entered == [st EXCEPT !.calls = @ + 1]
        IN
        IF Sql_bfsSkips(st, item, depth) THEN Sql_bfs(entered, rest, depth, nodeTypes)
        ELSE
            LET row == RowsWithId(graph_nodes, item.id)
                st1 == [entered EXCEPT
                          !.visited = @ \cup {item.id},
                          !.result = IF Len(row) > 0 /\ PassesFilter(nodeTypes, row[1])
                                     THEN Append(@, row[1]) ELSE @]
            IN
            IF Sql_bfsExpands(item.depth, depth)
            THEN IF strictBind
                 THEN [st1 EXCEPT !.threw = TRUE, !.result = <<>>]
                 ELSE Sql_bfs(st1,
                              rest \o Sql_pushes(Sql_edgesStmtAll(item.id), item.id,
                                                 st1.visited, item.depth),
                              depth, nodeTypes)
            ELSE Sql_bfs(st1, rest, depth, nodeTypes)

\* traverse(startId, depth, nodeTypes): queue = [{ id: startId, depth: 0 }]
Sql_traverseResult(startId, depth, nodeTypes) ==
    Sql_bfs(TraverseStart, <<[id |-> startId, depth |-> 0]>>, depth, nodeTypes)

Sql_traverse(startId, depth, nodeTypes) ==
    /\ backend = "sqlite"
    /\ ret = NoRet
    /\ LET st == Sql_traverseResult(startId, depth, nodeTypes) IN
       ret' = [op |-> "traverse", startId |-> startId, depth |-> depth,
               nodeTypes |-> nodeTypes, threw |-> st.threw,
               result |-> st.result, calls |-> st.calls]
    /\ UNCHANGED <<configVars, asyncVars, clockVars, vectorVars, sessionVars, graphVars>>

\* s sorted by created_at DESC; rows with equal created_at may come in any order
IsDescByCreatedAt(s) == \A i, j \in 1..Len(s) : i < j => s[i].createdAt >= s[j].createdAt

IsPermutationOf(s, t) ==
    /\ Len(s) = Len(t)
    /\ \E f \in [1..Len(s) -> 1..Len(s)] :
          /\ \A i, j \in 1..Len(s) : i # j => f[i] # f[j]
          /\ \A i \in 1..Len(s) : s[i] = t[f[i]]

\* SELECT * FROM graph_nodes WHERE type = ? ORDER BY created_at DESC
Sql_nodesByType(type) ==
    LET rows == SelectSeq(graph_nodes, LAMBDA n : n.type = type)
    IN {s \in [1..Len(rows) -> SeqRange(rows)] :
            IsPermutationOf(s, rows) /\ IsDescByCreatedAt(s)}

Sql_getNodesByType(type) ==
    /\ backend = "sqlite"
    /\ ret = NoRet
    /\ \E rows \in Sql_nodesByType(type) :
          ret' = [op |-> "getNodesByType", type |-> type, result |-> rows]
    /\ UNCHANGED <<configVars, asyncVars, clockVars, vectorVars, sessionVars, graphVars>>

\* clear(): DELETE FROM graph_nodes; DELETE FROM graph_edges
Sql_clear ==
    /\ backend = "sqlite"
    /\ ret = NoRet
    /\ graph_nodes' = <<>>
    /\ graph_edges' = <<>>
    /\ UNCHANGED <<configVars, asyncVars, clockVars, vectorVars, sessionVars, nodes, edges, graphFile, ret>>

----------------------------------------------------------------------------
(* Embeddings                                                              *)

\* The direction in which a non-empty text embeds.  The embedding itself is
\* outside the repository (the all-MiniLM-L6-v2 model, or the demo hash of
\* the in-memory store): the table fixes one non-zero vector per text.
TextVector(text) ==
    CASE text = "auth"    -> <<2, 1>>
      [] text = "jwt"     -> <<1, 1>>
      [] text = "note"    -> <<0, 2>>
      [] OTHER            -> <<1, 0>>

\* In-memory VectorStore.generateEmbedding: the array starts all zero and the
\* loop fills one component per character, so the empty text stays all zero.
Mem_generateEmbedding(text) == IF text = "" THEN ZeroVector ELSE TextVector(text)

\* LocalEmbeddingModel.initialize: nothing to do when the extractor is set;
\* else the pipeline load succeeds (extractor set) or fails (error shown,
\* swallowed, extractor stays null).
Local_initialize(ex, loadOk) ==
    IF ex = "loaded" THEN "loaded" ELSE IF loadOk THEN "loaded" ELSE "null"

\* The extractor after generateEmbedding: initialize(cacheDir) at line 90,
\* and generate's own initialize() when the extractor is still null.
Local_extractorAfter(ex, loadOk1, loadOk2) ==
    Local_initialize(Local_initialize(ex, loadOk1), loadOk2)

\* LocalEmbeddingModel.generate throws: 'Embedding model not initialized',
\* or the error of the extractor's own run
Local_generateThrows(exAfter, runOk) == exAfter = "null" \/ ~runOk

\* SQLite VectorStore.generateEmbedding: the model's vector, or in the catch
\* branch `new Array(384).fill(0)`.
Sql_generateEmbedding(text, exAfter, runOk) ==
    IF Local_generateThrows(exAfter, runOk) THEN ZeroVector ELSE TextVector(text)

\* Buffer.from(new Float32Array(embedding).buffer) and back: the components
\* used here are small integers, which float32 holds exactly.
Float32(v) == v

Dot(a, b) == a[1] * b[1] + a[2] * b[2]

Sign(x) == IF x > 0 THEN 1 ELSE IF x < 0 THEN -1 ELSE 0

\* cosineSimilarity(a, b) = dotProduct / (sqrt(normA) * sqrt(normB)).
\* The value is kept exactly as the pair (sq, den) standing for the number
\* sign(dot) * sqrt(sq / den); 0 / 0 is NaN.
cosineSimilarity(a, b) ==
    LET dotProduct == Dot(a, b)
        normA == Dot(a, a)
        normB == Dot(b, b)
    IN [nan |-> normA * normB = 0,
        sq  |-> Sign(dotProduct) * dotProduct * dotProduct,
        den |-> normA * normB]

\* The sign of x - y for two scores; NaN when either is NaN
ScoreDiff(x, y) ==
    IF x.nan \/ y.nan THEN "NaN" ELSE
    LET d == x.sq * y.den - y.sq * x.den
    IN IF d > 0 THEN "pos" ELSE IF d < 0 THEN "neg" ELSE "zero"

\* (a, b) => b.score - a.score, as Array.prototype.sort reads it: a negative
\* value puts a first, a positive one b first, NaN counts as +0.
SortCompare(a, b) ==
    LET d == ScoreDiff(b, a)
    IN IF d = "neg" THEN -1 ELSE IF d = "pos" THEN 1 ELSE 0

IndexOrders(n) ==
    {f \in [1..n -> 1..n] : \A i, j \in 1..n : i # j => f[i] # f[j]}

\* A comparator is consistent when "compares equal" is transitive; the
\* difference of two numbers is, a NaN among distinct numbers is not.
ConsistentCompare(scores) ==
    \A i, j, k \in 1..Len(scores) :
        (SortCompare(scores[i], scores[j]) = 0 /\ SortCompare(scores[j], scores[k]) = 0)
            => SortCompare(scores[i], scores[k]) = 0

\* Array.prototype.sort: with a consistent comparator the one stable order;
\* otherwise the order is implementation-defined (any permutation).
SortOrders(scores) ==
    IF ConsistentCompare(scores)
    THEN {f \in IndexOrders(Len(scores)) :
            \A i, j \in 1..Len(scores) : i < j =>
                LET c == SortCompare(scores[f[i]], scores[f[j]])
                IN c < 0 \/ (c = 0 /\ f[i] < f[j])}
    ELSE IndexOrders(Len(scores))

\* .slice(0, k) for k >= 0
Slice(s, k) == SubSeq(s, 1, IF k < Len(s) THEN k ELSE Len(s))

\* scored.sort(...).slice(0, k): the positions in the store of the entries
\* returned, for one order the sort may produce
TopK(f, k) == Slice(f, k)

----------------------------------------------------------------------------
(* VectorStore, in-memory (keywordSearch.ts 115-207)                       *)

\* this.entries.push({ id, content, embedding, metadata })
Mem_entriesPush(es, entry) == Append(es, entry)

Mem_add(id, content) ==
    /\ backend = "file"
    /\ ret = NoRet
    /\ Len(entries) < MaxEntries
    /\ entries' = Mem_entriesPush(entries,
                    [id |-> id, content |-> content,
                     embedding |-> Mem_generateEmbedding(content)])
    /\ vectorStoreState' = entries'
    /\ ret' = [op |-> "add", id |-> id, content |-> content,
               embedFailed |-> FALSE, threw |-> FALSE]
    /\ UNCHANGED <<configVars, asyncVars, clockVars, graphVars, sessionVars, vectors, extractor>>

Mem_search(query, k) ==
    /\ backend = "file"
    /\ ret = NoRet
    /\ LET queryEmbedding == Mem_generateEmbedding(query)
           scores == [i \in 1..Len(entries) |->
                        cosineSimilarity(queryEmbedding, entries[i].embedding)]
       IN \E f \in SortOrders(scores) :
            ret' = [op |-> "search", query |-> query, k |-> k,
                    queryEmbedding |-> queryEmbedding,
                    embedFailed |-> FALSE, threw |-> FALSE,
                    order |-> TopK(f, k),
                    result |-> [i \in 1..Len(TopK(f, k)) |-> entries[TopK(f, k)[i]]]]
    /\ UNCHANGED <<configVars, asyncVars, clockVars, graphVars, sessionVars, vectorVars>>

\* clear(): this.entries = []; this.saveToStorage()
Mem_clear ==
    /\ backend = "file"
    /\ ret = NoRet
    /\ entries' = <<>>
    /\ vectorStoreState' = <<>>
    /\ UNCHANGED <<configVars, asyncVars, clockVars, graphVars, sessionVars, vectors, extractor, ret>>

----------------------------------------------------------------------------
(* VectorStore, SQLite-backed (unnamed/part_001)                           *)

\* INSERT OR REPLACE INTO vectors: id is the PRIMARY KEY
Sql_vectorsReplace(rows, row) ==
    Append(SelectSeq(rows, LAMBDA r : r.id # row.id), row)

Sql_add(id, content) ==
    /\ backend = "sqlite"
    /\ ret = NoRet
    /\ \E loadOk1, loadOk2, runOk \in BOOLEAN :
        LET exAfter == Local_extractorAfter(extractor, loadOk1, loadOk2) IN
        /\ extractor' = exAfter
        \* generateEmbedding catches the model's error: add goes on to insert
        /\ vectors' = Sql_vectorsReplace(vectors,
                        [id |-> id, content |-> content,
                         embedding |-> Float32(Sql_generateEmbedding(content, exAfter, runOk))])
        /\ ret' = [op |-> "add", id |-> id, content |-> content,
                   embedFailed |-> Local_generateThrows(exAfter, runOk), threw |-> FALSE]
    /\ UNCHANGED <<configVars, asyncVars, clockVars, graphVars, sessionVars, entries, vectorStoreState>>

Sql_search(query, k) ==
    /\ backend = "sqlite"
    /\ ret = NoRet
    /\ \E loadOk1, loadOk2, runOk \in BOOLEAN :
        LET exAfter == Local_extractorAfter(extractor, loadOk1, loadOk2)
            queryEmbedding == Sql_generateEmbedding(query, exAfter, runOk)
            scores == [i \in 1..Len(vectors) |->
                         cosineSimilarity(queryEmbedding, vectors[i].embedding)]
        IN
        /\ extractor' = exAfter
        /\ \E f \in SortOrders(scores) :
              ret' = [op |-> "search", query |-> query, k |-> k,
                      queryEmbedding |-> queryEmbedding,
                      embedFailed |-> Local_generateThrows(exAfter, runOk), threw |-> FALSE,
                      order |-> TopK(f, k),
                      result |-> [i \in 1..Len(TopK(f, k)) |-> vectors[TopK(f, k)[i]]]]
    /\ UNCHANGED <<configVars, asyncVars, clockVars, graphVars, sessionVars, entries, vectorStoreState, vectors>>

\* clear(): DELETE FROM vectors
Sql_vectorClear ==
    /\ backend = "sqlite"
    /\ ret = NoRet
    /\ vectors' = <<>>
    /\ UNCHANGED <<configVars, asyncVars, clockVars, graphVars, sessionVars, entries, vectorStoreState,
                   extractor, ret>>

----------------------------------------------------------------------------
(* TokenBudget (core/tokenBudget.ts)                                       *)

\* text.length of the texts in use
TextLen(text) ==
    CASE text = ""           -> 0
      [] text = "jwt"        -> 3
      [] text = "note"       -> 4
      [] text = "auth"       -> 4
      [] text = "use JWT"    -> 7
      [] text = "add login"  -> 9
      [] text = "build auth" -> 10
      [] text = "INTENT"     -> 6
      [] text = "DECISION"   -> 8
      [] text = "SOLUTION"   -> 8
      [] text = "CODEARTIFACT" -> 12

\* Math.ceil(n / d) for n >= 0
CeilDiv(n, d) == (n + d - 1) \div d

\* countTokens(text) = Math.ceil(text.length / this.CHARS_PER_TOKEN)
countTokens(text) == CeilDiv(TextLen(text), CHARS_PER_TOKEN)

\* The loop of fitToTokenBudget / selectWithinBudget from item i on: the
\* positions pushed onto the result.  An item that does not fit is passed
\* over and the loop goes on to the next.
RECURSIVE FitLoop(_, _, _)
FitLoop(tokens, i, remaining) ==
    IF i > Len(tokens) THEN <<>>
    ELSE IF tokens[i] <= remaining
         THEN <<i>> \o FitLoop(tokens, i + 1, remaining - tokens[i])
         ELSE FitLoop(tokens, i + 1, remaining)

fitToTokenBudget(items, budget) ==
    /\ ret = NoRet
    /\ LET tokens == [i \in 1..Len(items) |-> countTokens(items[i])]
           kept == FitLoop(tokens, 1, budget)
       IN ret' = [op |-> "fitToTokenBudget", items |-> items, budget |-> budget,
                  tokens |-> tokens, kept |-> kept,
                  result |-> [j \in 1..Len(kept) |-> items[kept[j]]]]
    /\ UNCHANGED <<configVars, asyncVars, clockVars, graphVars, vectorVars, sessionVars>>

----------------------------------------------------------------------------
(* HybridRetriever.reciprocalRankFusion (hybridRetriever.ts 89-119)        *)

\* const k = 60
K == 60

\* Scores are kept as whole multiples of 1 / RrfScale, which every
\* K + rank + 1 in use divides.
RrfScale == (K + 1) * (K + 2) * (K + 3) * (K + 4) * (K + 5)

\* const rrf = 1 / (k + rank + 1), for the forEach index rank = 0, 1, ...
Rrf(rank) == RrfScale \div (K + rank + 1)

\* A list of RetrievalResult as graphSearch / vectorSearch build it from
\* content strings: score 1.0 - idx * 0.1, in hundredths
ResultList(contents, source) ==
    [i \in 1..Len(contents) |->
        [content |-> contents[i], source |-> source, score |-> 100 - 10 * (i - 1)]]

KeyIndex(m, key) ==
    IF \E i \in 1..Len(m) : m[i].key = key
    THEN CHOOSE i \in 1..Len(m) : m[i].key = key
    ELSE 0

\* fusedScores.set(key, { result, score: rrf }): a key already in the Map
\* keeps its place and has its value replaced
FusedSet(m, key, result, rrf) ==
    LET e == [key |-> key, result |-> result, score |-> rrf]
        i == KeyIndex(m, key)
    IN IF i = 0 THEN Append(m, e) ELSE [m EXCEPT ![i] = e]

\* graphResults.forEach((result, rank) => fusedScores.set(key, {result, score: rrf}))
RECURSIVE ScoreGraph(_, _, _)
ScoreGraph(m, graphResults, i) ==
    IF i > Len(graphResults) THEN m
    ELSE ScoreGraph(FusedSet(m, graphResults[i].content, graphResults[i], Rrf(i - 1)),
                    graphResults, i + 1)

\* The update of an entry already in the Map that drops the earlier score
CombineVector_overwrite(m, i, rrf) == [m EXCEPT ![i].score = rrf]

\* fusedScores.get(key)!.score += rrf
CombineVector(m, i, rrf) == [m EXCEPT ![i].score = @ + rrf]

\* vectorResults.forEach: has(key) ? score += rrf : set(key, {result, score: rrf})
RECURSIVE ScoreVector(_, _, _)
ScoreVector(m, vectorResults, i) ==
    IF i > Len(vectorResults) THEN m
    ELSE LET key == vectorResults[i].content
             at == KeyIndex(m, key)
         IN ScoreVector(IF at # 0 THEN CombineVector(m, at, Rrf(i - 1))
                        ELSE FusedSet(m, key, vectorResults[i], Rrf(i - 1)),
                        vectorResults, i + 1)

\* The sort with the comparator's operands exchanged: ascending score
SortByScore_ascending(m) ==
    LET Place(i) == 1 + Cardinality({j \in 1..Len(m) :
                        m[j].score < m[i].score \/ (m[j].score = m[i].score /\ j < i)})
    IN [p \in 1..Len(m) |-> m[CHOOSE i \in 1..Len(m) : Place(i) = p]]

\* Array.from(values).sort((a, b) => b.score - a.score): the scores are
\* numbers, the sort is stable: descending score, equal scores in Map order
SortByScore(m) ==
    LET Place(i) == 1 + Cardinality({j \in 1..Len(m) :
                        m[j].score > m[i].score \/ (m[j].score = m[i].score /\ j < i)})
    IN [p \in 1..Len(m) |-> m[CHOOSE i \in 1..Len(m) : Place(i) = p]]

\* The Map entries in the order reciprocalRankFusion returns their results
FusedEntries(graphResults, vectorResults) ==
    SortByScore(ScoreVector(ScoreGraph(<<>>, graphResults, 1), vectorResults, 1))

reciprocalRankFusion(graphContents, vectorContents) ==
    /\ ret = NoRet
    /\ LET graphResults == ResultList(graphContents, "graph")
           vectorResults == ResultList(vectorContents, "vector")
           fused == FusedEntries(graphResults, vectorResults)
       IN ret' = [op |-> "reciprocalRankFusion",
                  graphResults |-> graphResults, vectorResults |-> vectorResults,
                  fused |-> fused,
                  result |-> [i \in 1..Len(fused) |-> fused[i].result]]
    /\ UNCHANGED <<configVars, asyncVars, clockVars, graphVars, vectorVars, sessionVars>>

----------------------------------------------------------------------------
(* HybridRetriever.retrieve (hybridRetriever.ts 29-137)                    *)

\* node.type.toUpperCase()
ToUpperCase(type) ==
    CASE type = "Intent"       -> "INTENT"
      [] type = "Decision"     -> "DECISION"
      [] type = "CodeArtifact" -> "CODEARTIFACT"
      [] type = "Solution"     -> "SOLUTION"
      [] OTHER                 -> "OTHER"

\* A content string is kept as <<tag, body>>: "[TAG] body", or the plain
\* body when the tag is "".
\* `[INTENT] ${node.content}` and `[${node.type.toUpperCase()}] ${node.content}`
GraphContent(node) == <<ToUpperCase(node.type), node.content>>

\* entry.content
VectorContent(entry) == <<"", entry.content>>

\* content.length: "[" tag "] " body
ContentLen(c) == IF c[1] = "" THEN TextLen(c[2]) ELSE TextLen(c[1]) + 3 + TextLen(c[2])

\* this.tokenBudget.countTokens(result.content)
ContentTokens(c) == CeilDiv(ContentLen(c), CHARS_PER_TOKEN)

\* ['Decision', 'CodeArtifact', 'Solution']
ConnectedTypes == [given |-> TRUE, types |-> {"Decision", "CodeArtifact", "Solution"}]

\* this.sessionGraph.getIntents(): the lists getNodesByType('Intent') may give
GetIntents ==
    IF backend = "file" THEN {File_nodesByType("Intent")} ELSE Sql_nodesByType("Intent")

\* const latest = intents[intents.length - 1]
Latest(intents) == intents[Len(intents)]

\* this.sessionGraph.traverse(latest.id, 2, [...])
TraverseConnected(startId) ==
    IF backend = "file" THEN File_traverseResult(startId, 2, ConnectedTypes)
    ELSE Sql_traverseResult(startId, 2, ConnectedTypes)

\* graphSearch: the intents with score 1.0 - idx * 0.1, then the connected
\* nodes with score 0.8 - idx * 0.05 (scores in hundredths)
GraphResults(intents, connected) ==
    [i \in 1..Len(intents) |->
        [content |-> GraphContent(intents[i]), source |-> "graph",
         score |-> 100 - 10 * (i - 1)]]
    \o
    [i \in 1..Len(connected) |->
        [content |-> GraphContent(connected[i]), source |-> "graph",
         score |-> 80 - 5 * (i - 1)]]

\* vectorSearch: the entries search(query, 10) returned, score 1.0 - idx * 0.1
VectorResults(found) ==
    [i \in 1..Len(found) |->
        [content |-> VectorContent(found[i]), source |-> "vector",
         score |-> 100 - 10 * (i - 1)]]

\* selected.join('\n\n').length
JoinLen(lens) == IF lens = <<>> THEN 0 ELSE SumSeq(lens) + 2 * (Len(lens) - 1)

\* What retrieve hands back when one of its calls throws
RetrieveThrew(query, budget) ==
    [op |-> "retrieve", query |-> query, budget |-> budget, threw |-> TRUE,
     embedFailed |-> FALSE, intents |-> <<>>, started |-> <<>>, connected |-> <<>>,
     graphResults |-> <<>>, vectorResults |-> <<>>, fused |-> <<>>,
     kept |-> <<>>, selected |-> <<>>, length |-> 0]

\* selectWithinBudget over the fused results, and the whole record of the call
RetrieveReturned(query, budget, intents, started, connected, found, embedFailed) ==
    LET graphResults == GraphResults(intents, connected)
        vectorResults == VectorResults(found)
        fused == FusedEntries(graphResults, vectorResults)
        tokens == [i \in 1..Len(fused) |-> ContentTokens(fused[i].key)]
        kept == FitLoop(tokens, 1, budget)
        selected == [j \in 1..Len(kept) |-> fused[kept[j]].key]
    IN [op |-> "retrieve", query |-> query, budget |-> budget, threw |-> FALSE,
        embedFailed |-> embedFailed, intents |-> intents, started |-> started,
        connected |-> connected,
        graphResults |-> graphResults, vectorResults |-> vectorResults,
        fused |-> fused, kept |-> kept, selected |-> selected,
        length |-> JoinLen([j \in 1..Len(selected) |-> ContentLen(selected[j])])]

\* retrieve(query, tokenBudget): graphSearch, vectorSearch, fusion, selection.
\* Nothing in it catches: an error of the graph store or of the vector
\* store leaves retrieve as it is thrown.
retrieve(query, budget) ==
    /\ ret = NoRet
    /\ IF backend = "sqlite" /\ ~dbOpen
       THEN /\ ret' = RetrieveThrew(query, budget)
            /\ UNCHANGED extractor
       ELSE \E intents \in GetIntents :
            LET started == IF intents = <<>> THEN <<>> ELSE <<Latest(intents)>>
                trav == IF intents = <<>> THEN TraverseStart
                        ELSE TraverseConnected(Latest(intents).id)
            IN
            IF trav.threw
            THEN /\ ret' = RetrieveThrew(query, budget)
                 /\ UNCHANGED extractor
            ELSE IF backend = "file"
            THEN LET queryEmbedding == Mem_generateEmbedding(query)
                     scores == [i \in 1..Len(entries) |->
                                  cosineSimilarity(queryEmbedding, entries[i].embedding)]
                 IN /\ \E f \in SortOrders(scores) :
                         ret' = RetrieveReturned(query, budget, intents, started,
                                    trav.result,
                                    [i \in 1..Len(TopK(f, 10)) |-> entries[TopK(f, 10)[i]]],
                                    FALSE)
                    /\ UNCHANGED extractor
            ELSE \E loadOk1, loadOk2, runOk \in BOOLEAN :
                 LET exAfter == Local_extractorAfter(extractor, loadOk1, loadOk2)
                     queryEmbedding == Sql_generateEmbedding(query, exAfter, runOk)
                     scores == [i \in 1..Len(vectors) |->
                                  cosineSimilarity(queryEmbedding, vectors[i].embedding)]
                 IN /\ extractor' = exAfter
                    /\ \E f \in SortOrders(scores) :
                         ret' = RetrieveReturned(query, budget, intents, started,
                                    trav.result,
                                    [i \in 1..Len(TopK(f, 10)) |-> vectors[TopK(f, 10)[i]]],
                                    Local_generateThrows(exAfter, runOk))
    /\ UNCHANGED <<configVars, asyncVars, clockVars, graphVars, sessionVars, entries,
                   vectorStoreState, vectors>>

----------------------------------------------------------------------------
(* EntityExtractor (sessionRecovery.ts 537-748)                            *)

\* The nodes of the running generation's graph store
StoredNodes == IF backend = "file" THEN nodes ELSE graph_nodes

BuildVerbs == {"build", "create", "make", "implement", "develop"}

\* The file extension a word ends in, "" when it ends in none of
\* ts|js|py|java|go|rs|cpp|c|h|css|html|json|yaml|yml
FileExt(word) ==
    CASE word = "auth.ts"  -> "ts"
      [] word = "login.py" -> "py"
      [] OTHER             -> ""

\* One regular expression: the literal words `lead`, then (when `alts` is
\* not empty) a first group that is one of `alts`, then the literal words
\* `mid`, then the capturing group:
\*   "rest"   (.+)                 the rest of the line
\*   "file"   (.+\.(ts|js|...))    up to the last file name, the extension
\*                                 being a further group
\*   "better" (.+) better          up to the last "better"
Pat(type, lead, alts, mid, kind) ==
    [type |-> type, lead |-> lead, alts |-> alts, mid |-> mid, kind |-> kind]

\* ENTITY_PATTERNS, in source order.  Words are matched whole; the optional
\* ':' of the Error and Solution patterns and the "'ll" of "we'll" are left
\* to the wording of the inputs.
ENTITY_PATTERNS ==
    << Pat("Intent", <<"i", "want", "to">>, BuildVerbs, <<>>, "rest"),
       Pat("Intent", <<"let's">>, BuildVerbs, <<>>, "rest"),
       Pat("Intent", <<"goal", "is", "to">>, {}, <<>>, "rest"),
       Pat("Intent", <<"trying", "to">>, {}, <<>>, "rest"),
       Pat("Intent", <<"need", "to">>, {}, <<>>, "rest"),
       Pat("Decision", <<"let's", "use">>, {}, <<>>, "rest"),
       Pat("Decision", <<"we">>, {"will", "should"}, <<"use">>, "rest"),
       Pat("Decision", <<"going", "with">>, {}, <<>>, "rest"),
       Pat("Decision", <<"decided", "on">>, {}, <<>>, "rest"),
       Pat("CodeArtifact", <<"created">>, {}, <<>>, "file"),
       Pat("CodeArtifact", <<"file">>, {}, <<>>, "file"),
       Pat("CodeArtifact", <<"in">>, {}, <<>>, "file"),
       Pat("Error", <<"error">>, {}, <<>>, "rest"),
       Pat("Error", <<"exception">>, {}, <<>>, "rest"),
       Pat("Error", <<"failed">>, {}, <<>>, "rest"),
       Pat("Error", <<"typeerror">>, {}, <<>>, "rest"),
       Pat("Error", <<"referenceerror">>, {}, <<>>, "rest"),
       Pat("Solution", <<"fixed", "by">>, {}, <<>>, "rest"),
       Pat("Solution", <<"solved", "by">>, {}, <<>>, "rest"),
       Pat("Solution", <<"the", "fix", "is">>, {}, <<>>, "rest"),
       Pat("Solution", <<"solution">>, {}, <<>>, "rest"),
       Pat("Preference", <<"prefer">>, {}, <<>>, "rest"),
       Pat("Preference", <<"like">>, {}, <<>>, "better"),
       Pat("Preference", <<"always", "use">>, {}, <<>>, "rest"),
       Pat("Preference", <<"convention", "is">>, {}, <<>>, "rest") >>

\* Do the words `ws` stand in `text` from position p on
WordsAt(text, p, ws) ==
    /\ p + Len(ws) - 1 <= Len(text)
    /\ \A i \in 1..Len(ws) : text[p + i - 1] = ws[i]

\* Where the capturing group starts when the pattern is tried at p
CaptureStart(pat, p) ==
    p + Len(pat.lead) + (IF pat.alts = {} THEN 0 ELSE 1) + Len(pat.mid)

\* The last word the capturing group takes, 0 when it cannot match
CaptureEnd(pat, text, from) ==
    LET ends == CASE pat.kind = "rest"   -> {e \in from..Len(text) : e = Len(text)}
                  [] pat.kind = "file"   -> {e \in from..Len(text) : FileExt(text[e]) # ""}
                  [] pat.kind = "better" -> {e \in from..(Len(text) - 1) : text[e + 1] = "better"}
    IN IF ends = {} THEN 0 ELSE CHOOSE e \in ends : \A x \in ends : x <= e

\* Does the pattern match with its first word at p
MatchesAt(pat, text, p) ==
    /\ WordsAt(text, p, pat.lead)
    /\ pat.alts # {} =>
         /\ p + Len(pat.lead) <= Len(text)
         /\ text[p + Len(pat.lead)] \in pat.alts
    /\ WordsAt(text, p + Len(pat.lead) + (IF pat.alts = {} THEN 0 ELSE 1), pat.mid)
    /\ CaptureEnd(pat, text, CaptureStart(pat, p)) # 0

\* The match array of the leftmost match at p: match[0] is `full`, and the
\* groups are numbered by their opening parenthesis.  A group the pattern
\* does not have is undefined (<<>>, falsy like the empty string).
MatchArray(pat, text, p) ==
    LET from == CaptureStart(pat, p)
        to == CaptureEnd(pat, text, from)
        captured == SubSeq(text, from, to)
        full == SubSeq(text, p, IF pat.kind = "better" THEN to + 1 ELSE to)
    IN IF pat.alts # {}
       THEN [type |-> pat.type, full |-> full,
             g1 |-> <<text[p + Len(pat.lead)]>>, g2 |-> captured]
       ELSE IF pat.kind = "file"
       THEN [type |-> pat.type, full |-> full,
             g1 |-> captured, g2 |-> <<FileExt(text[to])>>]
       ELSE [type |-> pat.type, full |-> full, g1 |-> captured, g2 |-> <<>>]

\* content.matchAll(new RegExp(pattern, 'gi')): every capturing group runs
\* to the last place it can on the line, so a line holds at most one match
\* of a pattern, the leftmost.
MatchAll(pat, text) ==
    LET starts == {p \in 1..Len(text) : MatchesAt(pat, text, p)}
    IN IF starts = {} THEN <<>>
       ELSE <<MatchArray(pat, text, CHOOSE p \in starts : \A q \in starts : p <= q)>>

\* The matches the two nested loops of extractEntities visit, in order
RECURSIVE AllMatches(_, _)
AllMatches(text, k) ==
    IF k > Len(ENTITY_PATTERNS) THEN <<>>
    ELSE MatchAll(ENTITY_PATTERNS[k], text) \o AllMatches(text, k + 1)

\* match[2] || match[1] || match[0]
entityContent(match) ==
    IF match.g2 # <<>> THEN match.g2
    ELSE IF match.g1 # <<>> THEN match.g1
    ELSE match.full

\* String.prototype.trim: the words carry no outer white space
Trim(words) == SelectSeq(words, LAMBDA w : w # "" /\ w # " ")

\* generateId(type): `${type}_${Date.now()}_${random}`, a fresh id
generateId(type, n) == <<type, n>>

RECURSIVE SumTo(_, _)
SumTo(f, i) == IF i = 0 THEN 0 ELSE f[i] + SumTo(f, i - 1)

\* The nodes extractEntities builds for the matches: `ticks[i]` is how far
\* the clock moved before the i-th `new Date()`.
ExtractedNodes(matches, ticks) ==
    [i \in 1..Len(matches) |->
        [id |-> generateId(matches[i].type, idSeq + i),
         type |-> matches[i].type,
         content |-> Trim(entityContent(matches[i])),
         createdAt |-> now + SumTo(ticks, i)]]

\* The same nodes when the call starts at clock t with n ids handed out
ExtractedNodesAt(matches, ticks, t, n) ==
    [i \in 1..Len(matches) |->
        [id |-> generateId(matches[i].type, n + i),
         type |-> matches[i].type,
         content |-> Trim(entityContent(matches[i])),
         createdAt |-> t + SumTo(ticks, i)]]

RECURSIVE MapSetAll(_, _)
MapSetAll(m, ns) ==
    IF ns = <<>> THEN m ELSE MapSetAll(MapSet(m, Head(ns)), Tail(ns))

\* extractEntities(content): one node per match, each handed to
\* sessionGraph.addNode, all returned.
extractEntities(content) ==
    /\ ret = NoRet
    /\ LET matches == AllMatches(content, 1) IN
       /\ Len(StoredNodes) + Len(matches) <= MaxNodes
       /\ idSeq + Len(matches) <= MaxIds
       /\ \E ticks \in [1..Len(matches) -> {0, 1}] :
            LET extracted == ExtractedNodes(matches, ticks) IN
            /\ now + SumTo(ticks, Len(matches)) <= MaxClock
            /\ now' = now + SumTo(ticks, Len(matches))
            /\ idSeq' = idSeq + Len(matches)
            /\ IF backend = "file"
               THEN /\ nodes' = MapSetAll(nodes, extracted)
                    /\ graphFile' = IF extracted = <<>> THEN graphFile
                                    ELSE SavedGraph(nodes', edges)
                    /\ UNCHANGED graph_nodes
               ELSE /\ graph_nodes' = graph_nodes \o extracted
                    /\ UNCHANGED <<nodes, graphFile>>
            /\ ret' = [op |-> "extractEntities", content |-> content,
                       matches |-> matches, extracted |-> extracted]
    /\ UNCHANGED <<configVars, asyncVars, vectorVars, sessionVars, edges, graph_edges>>

\* RELATION_PATTERNS, in source order: the cue phrases of each edge type
RELATION_PATTERNS ==
    << [type |-> "LED_TO",
        patterns |-> << <<"led", "to">>, <<"resulted", "in">>, <<"caused">>, <<"then">> >>],
       [type |-> "RESOLVED_BY",
        patterns |-> << <<"fixed", "by">>, <<"solved", "by">>, <<"resolved", "by">> >>],
       [type |-> "IMPLEMENTED_IN",
        patterns |-> << <<"implemented", "in">>, <<"added", "to">>, <<"created", "in">>,
                        <<"updated", "in">> >>],
       [type |-> "DEPENDS_ON",
        patterns |-> << <<"depends", "on">>, <<"requires">>, <<"needs">>, <<"imports">> >>] >>

\* pattern.test(content)
Test(cue, text) == \E p \in 1..Len(text) : WordsAt(text, p, cue)

RECURSIVE Concat(_)
Concat(ss) == IF ss = <<>> THEN <<>> ELSE Head(ss) \o Concat(Tail(ss))

\* The edge literals of extractRelations carry no weight (written 0 here)
RelationEdge(from, to, type) == [from |-> from, to |-> to, type |-> type, weight |-> 0]

\* The first loop of extractRelations: for each edge type with a cue in the
\* text (the first such pattern, then break), one edge between the last two
\* of recentNodes.
ExplicitEdges(content, recentNodes) ==
    LET lastTwo == SubSeq(recentNodes, Len(recentNodes) - 1, Len(recentNodes))
        cued == SelectSeq(RELATION_PATTERNS,
                          LAMBDA r : \E i \in 1..Len(r.patterns) : Test(r.patterns[i], content))
    IN [k \in 1..Len(cued) |-> RelationEdge(lastTwo[1].id, lastTwo[2].id, cued[k].type)]

\* Auto-connect errors to solutions: solution.createdAt > error.createdAt
ErrorSolutionEdges(recentNodes) ==
    LET errors == SelectSeq(recentNodes, LAMBDA n : n.type = "Error")
        solutions == SelectSeq(recentNodes, LAMBDA n : n.type = "Solution")
    IN Concat([i \in 1..Len(errors) |->
          LET later == SelectSeq(solutions, LAMBDA x : x.createdAt > errors[i].createdAt)
          IN [j \in 1..Len(later) |-> RelationEdge(errors[i].id, later[j].id, "RESOLVED_BY")]])

\* Auto-connect decisions to code artifacts: artifact.createdAt >= decision.createdAt
DecisionArtifactEdges(recentNodes) ==
    LET decisions == SelectSeq(recentNodes, LAMBDA n : n.type = "Decision")
        artifacts == SelectSeq(recentNodes, LAMBDA n : n.type = "CodeArtifact")
    IN Concat([i \in 1..Len(decisions) |->
          LET since == SelectSeq(artifacts, LAMBDA x : x.createdAt >= decisions[i].createdAt)
          IN [j \in 1..Len(since) |->
                RelationEdge(decisions[i].id, since[j].id, "IMPLEMENTED_IN")]])

\* extractRelations(content, recentNodes): the edges it hands to
\* sessionGraph.addEdge, in order; none when recentNodes.length < 2.
RelationEdges(content, recentNodes) ==
    IF Len(recentNodes) < 2 THEN <<>>
    ELSE ExplicitEdges(content, recentNodes)
         \o ErrorSolutionEdges(recentNodes)
         \o DecisionArtifactEdges(recentNodes)

\* sessionGraph.addNode for each node in turn, on the store `ns` of the
\* running generation
AddNodes(ns, extracted) ==
    IF backend = "file" THEN MapSetAll(ns, extracted) ELSE ns \o extracted

\* sessionGraph.addEdge for each edge in turn, on the edges `es`
RECURSIVE AddEdges(_, _)
AddEdges(es, added) ==
    IF added = <<>> THEN es
    ELSE AddEdges(IF backend = "file" THEN File_edgesPush(es, Head(added))
                  ELSE Sql_edgesReplace(es, EdgeRow(Head(added))),
                  Tail(added))

\* getNodesByType(type) over the store `ns`: the lists it may give
NodesByTypeIn(ns, type) ==
    LET rows == SelectSeq(ns, LAMBDA n : n.type = type)
    IN IF backend = "file" THEN {rows}
       ELSE {s \in {[i \in 1..Len(rows) |-> rows[f[i]]] : f \in IndexOrders(Len(rows))} :
                IsDescByCreatedAt(s)}

\* Array.prototype.sort by createdAt ascending; the sort is stable
RECURSIVE SortByCreatedAt(_)
SortByCreatedAt(s) ==
    IF s = <<>> THEN <<>>
    ELSE LET x == s[Len(s)]
             sorted == SortByCreatedAt(SubSeq(s, 1, Len(s) - 1))
             before == SelectSeq(sorted, LAMBDA y : y.createdAt <= x.createdAt)
             after == SelectSeq(sorted, LAMBDA y : y.createdAt > x.createdAt)
         IN before \o <<x>> \o after

\* [...intents, ...decisions, ...entities].sort(...).slice(-10)
RecentNodes(intents, decisions, entities) ==
    Last(SortByCreatedAt(intents \o decisions \o entities), 10)

\* processMessage past a successful extractEntities: getIntents,
\* getDecisions, the recent-nodes window, extractRelations
ProcessExtracted(ns, es, content, extracted, t, n) ==
    LET stored == AddNodes(ns, extracted) IN
    {[threw |-> FALSE,
      ns |-> stored,
      es |-> AddEdges(es, RelationEdges(content,
                                        RecentNodes(intents, decisions, extracted))),
      now |-> t,
      idSeq |-> n,
      entities |-> extracted,
      recent |-> RecentNodes(intents, decisions, extracted),
      added |-> RelationEdges(content, RecentNodes(intents, decisions, extracted))] :
        intents \in NodesByTypeIn(stored, "Intent"),
        decisions \in NodesByTypeIn(stored, "Decision")}

\* processMessage(content) run on the graph (ns, es) at clock t with n ids
\* handed out: every way it can end.  With the database not opened the
\* first addNode throws out of getDB(); a text without a match reaches no
\* store at all.
ProcessOutcomes(ns, es, t, n, content) ==
    LET matches == AllMatches(content, 1) IN
    IF matches = <<>>
    THEN {[threw |-> FALSE, ns |-> ns, es |-> es, now |-> t, idSeq |-> n,
           entities |-> <<>>, recent |-> <<>>, added |-> <<>>]}
    ELSE IF backend = "sqlite" /\ ~dbOpen
    THEN {[threw |-> TRUE, ns |-> ns, es |-> es, now |-> t, idSeq |-> n + 1,
           entities |-> <<>>, recent |-> <<>>, added |-> <<>>]}
    ELSE UNION {ProcessExtracted(ns, es, content,
                                 ExtractedNodesAt(matches, ticks, t, n),
                                 t + SumTo(ticks, Len(matches)),
                                 n + Len(matches)) :
                    ticks \in [1..Len(matches) -> {0, 1}]}

\* EntityExtractor.processMessage(content) as a call of its own
processMessage(content) ==
    /\ ret = NoRet
    /\ Len(StoredNodes) + Len(AllMatches(content, 1)) <= MaxNodes
    /\ \E o \in ProcessOutcomes(StoredNodes,
                                IF backend = "file" THEN edges ELSE graph_edges,
                                now, idSeq, content) :
         /\ Len(o.es) <= MaxEdges
         /\ o.now <= MaxClock
         /\ o.idSeq <= MaxIds
         /\ now' = o.now
         /\ idSeq' = o.idSeq
         /\ IF backend = "file"
            THEN /\ nodes' = o.ns
                 /\ edges' = o.es
                 /\ graphFile' = IF o.ns = nodes /\ o.es = edges THEN graphFile
                                 ELSE SavedGraph(o.ns, o.es)
                 /\ UNCHANGED <<graph_nodes, graph_edges>>
            ELSE /\ graph_nodes' = o.ns
                 /\ graph_edges' = o.es
                 /\ UNCHANGED <<nodes, edges, graphFile>>
         /\ ret' = [op |-> "processMessage", content |-> content, threw |-> o.threw,
                    entities |-> o.entities, recent |-> o.recent, added |-> o.added]
    /\ UNCHANGED <<configVars, asyncVars, vectorVars, sessionVars>>

----------------------------------------------------------------------------
(* ObjectiveTracker and HighlightExtractor (sessionRecovery.ts 105-420)    *)

\* The patterns of ObjectiveTracker.extractFromMessage, in source order
OBJECTIVE_PATTERNS ==
    << Pat("Objective", <<"i", "want", "to">>, BuildVerbs, <<>>, "rest"),
       Pat("Objective", <<"let's">>, BuildVerbs, <<>>, "rest"),
       Pat("Objective", <<"goal", "is", "to">>, {}, <<>>, "rest"),
       Pat("Objective", <<"objective", "is">>, {}, <<>>, "rest"),
       Pat("Objective", <<"need", "to">>, {}, <<>>, "rest") >>

\* ObjectiveTracker.extractFromMessage(message): the first pattern that
\* matches adds the objective `match[2] || match[1]`, trimmed.
Objective_extractFromMessage(objs, message) ==
    LET hits == {k \in 1..Len(OBJECTIVE_PATTERNS) :
                    MatchAll(OBJECTIVE_PATTERNS[k], message) # <<>>}
    IN IF hits = {} THEN objs
       ELSE LET k == CHOOSE x \in hits : \A y \in hits : x <= y
                match == MatchAll(OBJECTIVE_PATTERNS[k], message)[1]
            IN Append(objs, Trim(IF match.g2 # <<>> THEN match.g2 ELSE match.g1))

\* One regular expression of HighlightExtractor.PATTERNS: the alternatives
\* of its literal part, and whether a (.+) follows it.
HPat(cues, rest) == [cues |-> cues, rest |-> rest]

\* HighlightExtractor.PATTERNS, in source order.  Words are matched whole;
\* an optional ':' is a spelling of the cue word.
HIGHLIGHT_PATTERNS ==
    << [type |-> "DECISION",
        patterns |-> <<
          HPat({<<"let's", "use">>, <<"let's", "go", "with">>, <<"let's", "choose">>,
                <<"let's", "pick">>, <<"let's", "implement">>, <<"let's", "adopt">>}, TRUE),
          HPat({<<"we'll", "use">>, <<"we'll", "go", "with">>, <<"we'll", "implement">>,
                <<"we", "will", "use">>, <<"we", "will", "go", "with">>,
                <<"we", "will", "implement">>, <<"we", "should", "use">>,
                <<"we", "should", "go", "with">>, <<"we", "should", "implement">>}, TRUE),
          HPat({<<"decided", "to">>}, TRUE),
          HPat({<<"decision">>, <<"decision:">>}, TRUE) >>],
       [type |-> "BLOCKER",
        patterns |-> <<
          HPat({<<"error">>, <<"error:">>}, TRUE),
          HPat({<<"exception">>, <<"exception:">>}, TRUE),
          HPat({<<"failed">>, <<"failed:">>}, TRUE),
          HPat({<<"cannot">>}, TRUE),
          HPat({<<"unable", "to">>}, TRUE),
          HPat({<<"blocked">>, <<"blocked:">>}, TRUE),
          HPat({<<"issue">>, <<"issue:">>}, TRUE) >>],
       [type |-> "SOLUTION",
        patterns |-> <<
          HPat({<<"fixed", "by">>, <<"fixed", "with">>, <<"fixed", "using">>}, TRUE),
          HPat({<<"solved", "by">>, <<"solved", "with">>}, TRUE),
          HPat({<<"the", "fix", "is">>, <<"the", "fix", "was">>,
                <<"the", "solution", "is">>, <<"the", "solution", "was">>}, TRUE),
          HPat({<<"resolved">>, <<"resolved:">>}, TRUE),
          HPat({<<"working", "now">>}, FALSE) >>],
       [type |-> "MILESTONE",
        patterns |-> <<
          HPat({<<"U+2713">>}, TRUE),     \* the check mark
          HPat({<<"done">>, <<"done:">>}, TRUE),
          HPat({<<"completed">>, <<"completed:">>}, TRUE),
          HPat({<<"finished">>, <<"finished:">>}, TRUE),
          HPat({<<"test", "passing">>, <<"test", "passed">>, <<"tests", "passing">>,
                <<"tests", "passed">>, <<"test", "are", "passing">>,
                <<"test", "are", "passed">>, <<"tests", "are", "passing">>,
                <<"tests", "are", "passed">>}, FALSE),
          HPat({<<"successfully">>}, TRUE) >>] >>

\* Where content.match(pattern) can start: a cue stands there and, for a
\* (.+), something follows it
HStarts(hp, text) ==
    {p \in 1..Len(text) :
        \E cue \in hp.cues :
            /\ WordsAt(text, p, cue)
            /\ hp.rest => p + Len(cue) <= Len(text)}

\* match[0] of the leftmost match: through the end of the line for a (.+),
\* else the cue itself
HMatch0(hp, text) ==
    LET p == CHOOSE x \in HStarts(hp, text) : \A y \in HStarts(hp, text) : x <= y
        cue == CHOOSE c \in hp.cues : WordsAt(text, p, c)
    IN IF hp.rest THEN SubSeq(text, p, Len(text)) ELSE cue

\* HighlightExtractor.extractFromMessage(content, messageIndex): for each
\* type the first pattern that matches gives one highlight (then break).
Highlight_extracted(content, messageIndex) ==
    LET hit(k) == {i \in 1..Len(HIGHLIGHT_PATTERNS[k].patterns) :
                      HStarts(HIGHLIGHT_PATTERNS[k].patterns[i], content) # {}}
        first(k) == CHOOSE i \in hit(k) : \A j \in hit(k) : i <= j
    IN Concat([k \in 1..Len(HIGHLIGHT_PATTERNS) |->
          IF hit(k) = {} THEN <<>>
          ELSE <<[type |-> HIGHLIGHT_PATTERNS[k].type,
                  content |-> HMatch0(HIGHLIGHT_PATTERNS[k].patterns[first(k)], content),
                  messageIndex |-> messageIndex]>>])

----------------------------------------------------------------------------
(* ContextBridge (unnamed/part_004)                                        *)

\* ImmediateContext.addMessage without the shift
Immediate_addMessage_noShift(ms, message) == Append(ms, message)

\* ImmediateContext.addMessage: push, then shift when over MAX_MESSAGES
Immediate_addMessage(ms, message) ==
    LET pushed == Append(ms, message)
    IN IF Len(pushed) > MAX_MESSAGES THEN Tail(pushed) ELSE pushed

\* ContextBridge.addMessage: push, feed the immediate context, saveMessages
addMessage(message) ==
    /\ ret = NoRet
    /\ Len(messages) < MaxMessages
    /\ messages' = Append(messages, message)
    /\ immediateMessages' = Immediate_addMessage(immediateMessages, message)
    /\ sessionFile' = Last(messages', SavedMessagesLimit)
    /\ UNCHANGED <<configVars, asyncVars, clockVars, graphVars, vectorVars, trackerVars, ret>>

\* ContextBridge.clearSession: this.messages = []; immediateContext.clear();
\* sessionGraph.clear(); storage.clearAll() (every file of the storage
\* directory is unlinked); updateUI().  The vector store is not touched.
clearSession ==
    /\ ret = NoRet
    /\ messages' = <<>>
    /\ immediateMessages' = <<>>
    /\ IF backend = "file"
       THEN /\ nodes' = <<>>
            /\ edges' = <<>>
            /\ UNCHANGED <<graph_nodes, graph_edges>>
       ELSE /\ graph_nodes' = <<>>
            /\ graph_edges' = <<>>
            /\ UNCHANGED <<nodes, edges>>
    /\ graphFile' = NoFile
    /\ sessionFile' = <<>>
    /\ ret' = [op |-> "clearSession"]
    /\ UNCHANGED <<configVars, asyncVars, clockVars, vectorVars, trackerVars>>

\* The edges of the running generation's graph store
StoredEdges == IF backend = "file" THEN edges ELSE graph_edges

\* What one run of sendMessage leaves behind
SendOutcome(ms, im, g, ks, os, hs, ex, threw, caught, sent, recorded, fallback) ==
    [messages |-> ms, immediateMessages |-> im,
     ns |-> g.ns, es |-> g.es, now |-> g.now, idSeq |-> g.idSeq,
     keywordMessages |-> ks, objectives |-> os, highlights |-> hs, extractor |-> ex,
     threw |-> threw, caught |-> caught, sent |-> sent, recorded |-> recorded,
     fallback |-> fallback]

\* hybridRetriever.retrieve(query, 500) inside generateContextHandoff throws
\* when the traversal from the latest intent does: the start item is at
\* depth 0 of 2, so the SQLite traversal runs its edge statement.
HandoffRetrieveThrows(ns) ==
    /\ backend = "sqlite"
    /\ \E i \in 1..Len(ns) : ns[i].type = "Intent"
    /\ Sql_bfsExpands(0, 2)
    /\ strictBind

\* The embedding model after the retrieve of generateContextHandoff: the
\* SQLite vector search loads it unless the graph search threw first
HandoffExtractors(ns) ==
    IF backend = "file" \/ HandoffRetrieveThrows(ns) THEN {extractor}
    ELSE {Local_extractorAfter(extractor, loadOk1, loadOk2) : loadOk1, loadOk2 \in BOOLEAN}

\* sendMessage past the adapter's answer (lines 193-210): the assistant
\* message, processMessage and the highlights of the reply, the keyword
\* index.  saveCurrentSession ends the try block; its conversationSaver
\* .autoSave writes nothing that is kept here.
SendReplied(ms, im, g, ks, os, hs, ex, fallback, reply) ==
    LET assistantMessage == [role |-> "assistant", content |-> reply]
        ms2 == Append(ms, assistantMessage)
        im2 == Immediate_addMessage(im, assistantMessage)
    IN {IF o2.threw
        THEN SendOutcome(ms2, im2, o2, ks, os, hs, ex, FALSE, TRUE, TRUE, TRUE, fallback)
        ELSE SendOutcome(ms2, im2, o2, Append(ks, assistantMessage), os,
                         hs \o Highlight_extracted(reply, Len(ms2) - 1), ex,
                         FALSE, FALSE, TRUE, TRUE, fallback) :
            o2 \in ProcessOutcomes(g.ns, g.es, g.now, g.idSeq, reply)}

\* sendMessage inside its try block (lines 185-214), the user's message
\* processed: buildContextMessages -> generateContextHandoff reads
\* sessionGraph.getIntents() outside its own try (line 269), the retrieve is
\* inside it (lines 282-294, keyword search on failure); then the adapter.
SendTried(ms, im, g, ks, os, hs, adapter, reply) ==
    IF backend = "sqlite" /\ ~dbOpen
    THEN {SendOutcome(ms, im, g, ks, os, hs, extractor, FALSE, TRUE, FALSE, FALSE, FALSE)}
    ELSE UNION {
           IF adapter = "fails"
           THEN {SendOutcome(ms, im, g, ks, os, hs, ex, FALSE, TRUE, TRUE, FALSE,
                             HandoffRetrieveThrows(g.ns))}
           ELSE SendReplied(ms, im, g, ks, os, hs, ex, HandoffRetrieveThrows(g.ns), reply) :
           ex \in HandoffExtractors(g.ns)}

\* sendMessage(content) with an adapter (lines 169-214): every way it can
\* end.  processMessage(content) is awaited before the try block (line
\* 180): what it throws leaves sendMessage.
SendOutcomes(content, adapter, reply) ==
    LET userMessage == [role |-> "user", content |-> content]
        ms1 == Append(messages, userMessage)
        im1 == Immediate_addMessage(immediateMessages, userMessage)
    IN UNION {
         IF o1.threw
         THEN {SendOutcome(ms1, im1, o1, keywordMessages, objectives, highlights,
                           extractor, TRUE, FALSE, FALSE, FALSE, FALSE)}
         ELSE SendTried(ms1, im1, o1,
                        Append(keywordMessages, userMessage),
                        Objective_extractFromMessage(objectives, content),
                        highlights \o Highlight_extracted(content, Len(ms1) - 1),
                        adapter, reply) :
         o1 \in ProcessOutcomes(StoredNodes, StoredEdges, now, idSeq, content)}

\* ContextBridge.sendMessage(content); `adapter` is this.currentAdapter and
\* `reply` the content of its response.
sendMessage(content, adapter, reply) ==
    /\ ret = NoRet
    /\ IF adapter = "none"
       THEN /\ ret' = [op |-> "sendMessage", content |-> content, adapter |-> adapter,
                       reply |-> reply, threw |-> FALSE, caught |-> FALSE,
                       sent |-> FALSE, recorded |-> FALSE, fallback |-> FALSE]
            /\ UNCHANGED <<graphVars, vectorVars, sessionVars, clockVars>>
       ELSE /\ Len(messages) + 2 <= MaxMessages
            /\ Len(SelectSeq(messages, LAMBDA m : m.role = "user")) < MaxTurns
            /\ Len(StoredNodes) + Len(AllMatches(content, 1)) <= MaxNodes
            /\ \E o \in SendOutcomes(content, adapter, reply) :
                 /\ Len(o.ns) <= MaxNodes
                 /\ Len(o.es) <= MaxEdges
                 /\ o.now <= MaxClock
                 /\ o.idSeq <= MaxIds
                 /\ messages' = o.messages
                 /\ immediateMessages' = o.immediateMessages
                 /\ sessionFile' = Last(messages', SavedMessagesLimit)
                 /\ keywordMessages' = o.keywordMessages
                 /\ objectives' = o.objectives
                 /\ highlights' = o.highlights
                 /\ now' = o.now
                 /\ idSeq' = o.idSeq
                 /\ extractor' = o.extractor
                 /\ IF backend = "file"
                    THEN /\ nodes' = o.ns
                         /\ edges' = o.es
                         /\ graphFile' = IF o.ns = nodes /\ o.es = edges THEN graphFile
                                         ELSE SavedGraph(o.ns, o.es)
                         /\ UNCHANGED <<graph_nodes, graph_edges>>
                    ELSE /\ graph_nodes' = o.ns
                         /\ graph_edges' = o.es
                         /\ UNCHANGED <<nodes, edges, graphFile>>
                 /\ ret' = [op |-> "sendMessage", content |-> content, adapter |-> adapter,
                            reply |-> reply, threw |-> o.threw, caught |-> o.caught,
                            sent |-> o.sent, recorded |-> o.recorded,
                            fallback |-> o.fallback]
                 /\ UNCHANGED <<entries, vectorStoreState, vectors>>
    /\ UNCHANGED <<configVars, asyncVars>>

----------------------------------------------------------------------------
(* ContextBridge.sendMessage and switchModel as the event loop runs them:  *)
(* the webview callbacks start them without awaiting, so a call runs up to *)
(* an `await`, and the calls in flight take turns.                         *)

\* The graph store takes the outcome of a processMessage
StoreOutcome(o) ==
    /\ now' = o.now
    /\ idSeq' = o.idSeq
    /\ IF backend = "file"
       THEN /\ nodes' = o.ns
            /\ edges' = o.es
            /\ graphFile' = IF o.ns = nodes /\ o.es = edges THEN graphFile
                            ELSE SavedGraph(o.ns, o.es)
            /\ UNCHANGED <<graph_nodes, graph_edges>>
       ELSE /\ graph_nodes' = o.ns
            /\ graph_edges' = o.es
            /\ UNCHANGED <<nodes, edges, graphFile>>

WithinBounds(o) ==
    /\ Len(o.ns) <= MaxNodes
    /\ Len(o.es) <= MaxEdges
    /\ o.now <= MaxClock
    /\ o.idSeq <= MaxIds

\* sendMessage to its first await (lines 164-176): the user message, with
\* the model current now, is added
Send_begin(content) ==
    /\ ret = NoRet
    /\ currentAdapter # "none"
    /\ Len(requests) < MaxTurns
    /\ Len(messages) + 2 <= MaxMessages
    /\ LET userMessage == [role |-> "user", content |-> content, model |-> currentModel]
       IN /\ messages' = Append(messages, userMessage)
          /\ immediateMessages' = Immediate_addMessage(immediateMessages, userMessage)
          /\ sessionFile' = Last(messages', SavedMessagesLimit)
          /\ requests' = Append(requests, [user |-> userMessage, pc |-> "extract",
                                           adapter |-> "none", at |-> 0])
    /\ UNCHANGED <<configVars, storageVars, embedVars, reloadVars, graphVars, vectorVars, trackerVars,
                   clockVars, currentModel, currentAdapter, switches, ret>>

\* sendMessage from processMessage(content) to the adapter call (lines
\* 180-190): the request goes to the adapter current now
Send_extract(i) ==
    /\ ret = NoRet
    /\ i \in 1..Len(requests)
    /\ requests[i].pc = "extract"
    /\ LET content == requests[i].user.content IN
       /\ Len(StoredNodes) + Len(AllMatches(content, 1)) <= MaxNodes
       /\ \E o \in ProcessOutcomes(StoredNodes, StoredEdges, now, idSeq, content) :
            /\ WithinBounds(o)
            /\ StoreOutcome(o)
            /\ IF o.threw
               THEN /\ requests' = [requests EXCEPT ![i].pc = "rejected"]
                    /\ UNCHANGED <<trackerVars, extractor>>
               ELSE /\ keywordMessages' = Append(keywordMessages, requests[i].user)
                    /\ objectives' = Objective_extractFromMessage(objectives, content)
                    /\ highlights' = highlights \o Highlight_extracted(content, Len(messages) - 1)
                    /\ IF backend = "sqlite" /\ ~dbOpen
                       THEN /\ requests' = [requests EXCEPT ![i].pc = "caught"]
                            /\ UNCHANGED extractor
                       ELSE /\ extractor' \in HandoffExtractors(o.ns)
                            /\ requests' = [requests EXCEPT ![i].pc = "inflight",
                                                            ![i].adapter = currentAdapter]
    /\ UNCHANGED <<configVars, storageVars, embedVars, reloadVars, entries, vectorStoreState, vectors,
                   messages, immediateMessages, sessionFile, currentModel, currentAdapter,
                   switches, ret>>

\* sendMessage from the adapter's answer on (lines 190-214): the assistant
\* message is built with the model current now
Send_respond(i, reply, ok) ==
    /\ ret = NoRet
    /\ i \in 1..Len(requests)
    /\ requests[i].pc = "inflight"
    /\ IF ~ok
       THEN /\ requests' = [requests EXCEPT ![i].pc = "caught"]
            /\ UNCHANGED <<graphVars, clockVars, sessionVars>>
       ELSE LET assistantMessage == [role |-> "assistant", content |-> reply,
                                     model |-> currentModel]
            IN
            /\ Len(StoredNodes) + Len(AllMatches(reply, 1)) <= MaxNodes
            /\ messages' = Append(messages, assistantMessage)
            /\ immediateMessages' = Immediate_addMessage(immediateMessages, assistantMessage)
            /\ sessionFile' = Last(messages', SavedMessagesLimit)
            /\ \E o \in ProcessOutcomes(StoredNodes, StoredEdges, now, idSeq, reply) :
                 /\ WithinBounds(o)
                 /\ StoreOutcome(o)
                 /\ highlights' = highlights \o Highlight_extracted(reply, Len(messages') - 1)
                 /\ keywordMessages' = Append(keywordMessages, assistantMessage)
                 /\ UNCHANGED objectives
            /\ requests' = [requests EXCEPT ![i].pc = "done", ![i].at = Len(messages')]
    /\ UNCHANGED <<configVars, storageVars, embedVars, reloadVars, vectorVars, currentModel,
                   currentAdapter, switches, ret>>

\* switchModel to its await (lines 114-121): nothing to do for the model
\* that is current, else generateContextHandoff is started
Switch_begin(newModel) ==
    /\ ret = NoRet
    /\ Len(switches) < MaxSwitches
    /\ currentModel # newModel
    /\ switches' = Append(switches, [model |-> newModel, pc |-> "handoff"])
    /\ UNCHANGED <<configVars, storageVars, embedVars, reloadVars, graphVars, vectorVars, sessionVars,
                   clockVars, currentModel, currentAdapter, requests, ret>>

\* switchModel past generateContextHandoff (lines 121-137): currentModel and
\* the adapter are replaced; a handoff that throws (getIntents with the
\* database not opened) leaves switchModel with nothing switched
Switch_end(j) ==
    /\ ret = NoRet
    /\ j \in 1..Len(switches)
    /\ switches[j].pc = "handoff"
    /\ IF backend = "sqlite" /\ ~dbOpen
       THEN /\ switches' = [switches EXCEPT ![j].pc = "rejected"]
            /\ UNCHANGED <<currentModel, currentAdapter, extractor>>
       ELSE /\ extractor' \in HandoffExtractors(StoredNodes)
            /\ currentModel' = switches[j].model
            /\ currentAdapter' = switches[j].model
            /\ switches' = [switches EXCEPT ![j].pc = "done"]
    /\ UNCHANGED <<configVars, storageVars, embedVars, reloadVars, graphVars, entries, vectorStoreState,
                   vectors, sessionVars, clockVars, requests, ret>>

----------------------------------------------------------------------------
(* LocalEmbeddingModel (retrieval/localEmbeddings.ts) under overlapping    *)
(* generateEmbedding calls of the SQLite vector store: a call runs up to   *)
(* an `await` of the pipeline load or of the extractor's run.              *)

embedRest == <<configVars, storageVars, bridgeVars, reloadVars, graphVars, entries, vectorStoreState,
               vectors, sessionVars, clockVars, ret>>

\* generateEmbedding (part_001 85-96) to its first await that takes time.
\* initialize(cacheDir) returns at once when the extractor is set or
\* isInitializing is; generate then calls initialize() again, which returns
\* at once for the same reason, and throws when the extractor is still null.
\* The catch of generateEmbedding makes that the zero vector.
Embed_begin(text) ==
    /\ Len(embeds) < MaxEmbeds
    /\ LET call == [text |-> text, pc |-> "run", during |-> isInitializing, threw |-> FALSE,
                    result |-> <<>>]
       IN IF extractor = "loaded"
          THEN /\ embeds' = Append(embeds, call)
               /\ UNCHANGED isInitializing
          ELSE IF isInitializing
          THEN /\ embeds' = Append(embeds, [call EXCEPT !.pc = "done", !.threw = TRUE,
                                                        !.result = ZeroVector])
               /\ UNCHANGED isInitializing
          ELSE /\ embeds' = Append(embeds, [call EXCEPT !.pc = "load1"])
               /\ isInitializing' = TRUE
    /\ UNCHANGED <<embedRest, extractor>>

\* The pipeline load of initialize settles (lines 41-51): the extractor is
\* set, or the error is shown and swallowed; isInitializing is reset. After
\* initialize(cacheDir), generate is entered: with the extractor still null
\* it starts initialize() again; after that one it throws when the extractor
\* is still null.
Embed_loaded(i, loadOk) ==
    /\ i \in 1..Len(embeds)
    /\ embeds[i].pc \in {"load1", "load2"}
    /\ extractor' = IF loadOk THEN "loaded" ELSE extractor
    /\ IF extractor' = "loaded"
       THEN /\ embeds' = [embeds EXCEPT ![i].pc = "run"]
            /\ isInitializing' = FALSE
       ELSE IF embeds[i].pc = "load1"
       THEN /\ embeds' = [embeds EXCEPT ![i].pc = "load2"]
            /\ isInitializing' = TRUE
       ELSE /\ embeds' = [embeds EXCEPT ![i].pc = "done", ![i].threw = TRUE,
                                        ![i].result = ZeroVector]
            /\ isInitializing' = FALSE
    /\ UNCHANGED embedRest

\* The extractor's run settles (lines 67-71): the vector, or its error,
\* which generateEmbedding turns into the zero vector
Embed_run(i, runOk) ==
    /\ i \in 1..Len(embeds)
    /\ embeds[i].pc = "run"
    /\ embeds' = [embeds EXCEPT ![i].pc = "done",
                                ![i].result = IF runOk THEN TextVector(embeds[i].text)
                                              ELSE ZeroVector]
    /\ UNCHANGED <<embedRest, extractor, isInitializing>>

----------------------------------------------------------------------------
(* ContextBridge.addMessage / saveMessages / loadMessages with the session *)
(* file, over a restart of the extension.  Messages carry their timestamp. *)

\* JSON.stringify then JSON.parse of a message: the Date becomes its ISO
\* string and stays a string
JsonMessage(m) == [m EXCEPT !.timestamp = <<"string", m.timestamp[2]>>]

JsonMessages(ms) == [i \in 1..Len(ms) |-> JsonMessage(ms[i])]

\* ImmediateContext.addMessage for each message of a list, in order
RECURSIVE Immediate_addAll(_, _)
Immediate_addAll(ms, list) ==
    IF list = <<>> THEN ms
    ELSE Immediate_addAll(Immediate_addMessage(ms, Head(list)), Tail(list))

RemoveAt(s, i) == SubSeq(s, 1, i - 1) \o SubSeq(s, i + 1, Len(s))

reloadRest == <<configVars, storageVars, bridgeVars, embedVars, graphVars, vectorVars,
                trackerVars, clockVars, ret>>

\* sendMessage's messages in turn: the user's, then the assistant's (lines
\* 170-176, 193-200), each with `timestamp: new Date()`
NextMessage ==
    [role |-> IF Len(messages) % 2 = 0 THEN "user" ELSE "assistant",
     content |-> <<"m">>,
     timestamp |-> <<"Date", Len(messages) + 1>>]

\* addMessage to its await (lines 146-149), with saveMessages to the await
\* of storage.write (426-429): the last 100 messages are handed to write
\* (the session is followed up to its reload)
Save_begin ==
    /\ restarts = 0
    /\ Len(messages) < MaxStored
    /\ Len(saves) < MaxSaves
    /\ messages' = Append(messages, NextMessage)
    /\ immediateMessages' = Immediate_addMessage(immediateMessages, NextMessage)
    /\ saves' = Append(saves, Last(messages', SavedMessagesLimit))
    /\ UNCHANGED <<reloadRest, sessionFile, loads, restarts>>

\* A storage.write of saveMessages completes: the file holds what that call
\* was given, as JSON.  Writes in flight complete in any order.
Save_end(i) ==
    /\ i \in 1..Len(saves)
    /\ sessionFile' = JsonMessages(saves[i])
    /\ saves' = RemoveAt(saves, i)
    /\ UNCHANGED <<reloadRest, messages, immediateMessages, loads, restarts>>

\* The extension is activated again (extension.ts 20-28): new ContextBridge,
\* whose constructor calls loadMessages without awaiting it (line 83), then
\* `await contextBridge.initialize()`, which calls loadMessages (line 413)
Restart ==
    /\ saves = <<>>
    /\ loads = 0
    /\ restarts < MaxRestarts
    /\ restarts' = restarts + 1
    /\ messages' = <<>>
    /\ immediateMessages' = <<>>
    /\ loads' = 2
    /\ UNCHANGED <<reloadRest, sessionFile, saves>>

\* A loadMessages gets its data (lines 416-424): this.messages is replaced,
\* the last 5 messages are added to the immediate context
Load_end ==
    /\ loads > 0
    /\ loads' = loads - 1
    /\ messages' = sessionFile
    /\ immediateMessages' = Immediate_addAll(immediateMessages, Last(sessionFile, MAX_MESSAGES))
    /\ UNCHANGED <<reloadRest, sessionFile, saves, restarts>>

----------------------------------------------------------------------------
(* FileStorage (storage/fileStorage.ts), one filename.  read and write are  *)
(* async: each `await` ends a step, and the steps of the calls in flight    *)
(* interleave.                                                              *)

\* JSON.parse(JSON.stringify(value)): a Date comes back as a string
DeepCopy(value) == IF value = "d1" THEN "s1" ELSE value

\* JSON.stringify(data, null, 2), as the value a parse of the text gives
Stringify(value) == DeepCopy(value)

FreeObjects == {o \in 1..MaxObjects : objects[o] = "free"}

\* A fresh object
NewObject == CHOOSE o \in FreeObjects : \A x \in FreeObjects : o <= x

otherVars == <<configVars, graphVars, vectorVars, sessionVars, bridgeVars, embedVars,
               reloadVars, idSeq, ret>>

\* A caller builds the data it is going to store
Caller_create(value) ==
    /\ FreeObjects # {}
    /\ objects' = [objects EXCEPT ![NewObject] = value]
    /\ held' = held \cup {NewObject}
    /\ UNCHANGED <<otherVars, cache, disk, temps, writes, reads, now>>

\* A caller changes an object it holds
Caller_mutate(o, value) ==
    /\ o \in held
    /\ objects[o] # value
    /\ objects' = [objects EXCEPT ![o] = value]
    /\ UNCHANGED <<otherVars, held, cache, disk, temps, writes, reads, now>>

\* Time passes
Tick ==
    /\ now < MaxClock
    /\ now' = now + 1
    /\ UNCHANGED <<otherVars, storageVars>>

\* write(filename, data) up to its first await (lines 83-87): the paths are
\* computed, tempPath from Date.now(), and the mkdir is started.
Storage_write(o) ==
    /\ o \in held
    /\ Len(writes) < MaxWrites
    /\ writes' = Append(writes, [data |-> o, given |-> objects[o], tempPath |-> now,
                                 pc |-> "mkdir", text |-> "none"])
    /\ UNCHANGED <<otherVars, objects, held, cache, disk, temps, reads, now>>

\* write past the mkdir (lines 91-94): the cache gets a copy of data as it
\* is now, the text is made, the writeFile of the temporary file is started.
Storage_writeCopy(i) ==
    /\ i \in 1..Len(writes)
    /\ writes[i].pc = "mkdir"
    /\ LET released == IF cache = 0 THEN objects ELSE [objects EXCEPT ![cache] = "free"]
           free == {o \in 1..MaxObjects : released[o] = "free"}
           copy == CHOOSE o \in free : \A x \in free : o <= x
       IN /\ free # {}
          /\ objects' = [released EXCEPT ![copy] = DeepCopy(objects[writes[i].data])]
          /\ cache' = copy
          /\ writes' = [writes EXCEPT ![i].pc = "writeFile",
                                      ![i].text = Stringify(objects[writes[i].data])]
    /\ UNCHANGED <<otherVars, held, disk, temps, reads, now>>

\* the writeFile of the temporary file completes (line 94)
Storage_writeFile(i) ==
    /\ i \in 1..Len(writes)
    /\ writes[i].pc = "writeFile"
    /\ temps' = [temps EXCEPT ![writes[i].tempPath] = writes[i].text]
    /\ writes' = [writes EXCEPT ![i].pc = "rename"]
    /\ UNCHANGED <<otherVars, objects, held, cache, disk, reads, now>>

\* the rename of the temporary file completes (line 97); when another write
\* with the same tempPath has renamed it away the rename throws, the catch
\* finds nothing to unlink (lines 99-105).
Storage_rename(i) ==
    /\ i \in 1..Len(writes)
    /\ writes[i].pc = "rename"
    /\ IF temps[writes[i].tempPath] # "absent"
       THEN /\ disk' = temps[writes[i].tempPath]
            /\ temps' = [temps EXCEPT ![writes[i].tempPath] = "absent"]
            /\ writes' = [writes EXCEPT ![i].pc = "done"]
       ELSE /\ writes' = [writes EXCEPT ![i].pc = "failed"]
            /\ UNCHANGED <<disk, temps>>
    /\ UNCHANGED <<otherVars, objects, held, cache, reads, now>>

\* read(filename, defaultValue) up to its first await (lines 42-51): a deep
\* copy of the cached value, or the access of the file is started.
Storage_read ==
    /\ Len(reads) < MaxReads
    /\ IF cache # 0
       THEN /\ FreeObjects # {}
            /\ objects' = [objects EXCEPT ![NewObject] = DeepCopy(objects[cache])]
            /\ held' = held \cup {NewObject}
            /\ reads' = Append(reads, [pc |-> "done", result |-> DeepCopy(objects[cache])])
       ELSE /\ reads' = Append(reads, [pc |-> "access", result |-> "none"])
            /\ UNCHANGED <<objects, held>>
    /\ UNCHANGED <<otherVars, cache, disk, temps, writes, now>>

\* read past the access (lines 50-56): no file, the default value itself is
\* returned; else the readFile is started.
Storage_readAccess(i) ==
    /\ i \in 1..Len(reads)
    /\ reads[i].pc = "access"
    /\ reads' = IF disk = "absent"
                THEN [reads EXCEPT ![i].pc = "done", ![i].result = "default"]
                ELSE [reads EXCEPT ![i].pc = "readFile"]
    /\ UNCHANGED <<otherVars, objects, held, cache, disk, temps, writes, now>>

\* read past the readFile (lines 56-60): the parsed value is put into the
\* cache and a deep copy of it returned.  The file always holds the text
\* of a write, so the parse does not fail.
Storage_readFile(i) ==
    /\ i \in 1..Len(reads)
    /\ reads[i].pc = "readFile"
    /\ LET released == IF cache = 0 THEN objects ELSE [objects EXCEPT ![cache] = "free"]
           free == {o \in 1..MaxObjects : released[o] = "free"}
           parsed == CHOOSE o \in free : \A x \in free : o <= x
           copy == CHOOSE o \in free \ {parsed} : \A x \in free \ {parsed} : o <= x
       IN /\ Cardinality(free) >= 2
          /\ disk # "absent"
          /\ objects' = [released EXCEPT ![parsed] = disk, ![copy] = DeepCopy(disk)]
          /\ cache' = parsed
          /\ held' = held \cup {copy}
          /\ reads' = [reads EXCEPT ![i].pc = "done", ![i].result = DeepCopy(disk)]
    /\ UNCHANGED <<otherVars, disk, temps, writes, now>>

\* clearCache(): this.cache.clear()
Storage_clearCache ==
    /\ cache # 0
    /\ objects' = [objects EXCEPT ![cache] = "free"]
    /\ cache' = 0
    /\ UNCHANGED <<otherVars, held, disk, temps, writes, reads, now>>

----------------------------------------------------------------------------
(* The caller takes the returned value (or the thrown error) and goes on.  *)

Return ==
    /\ ret # NoRet
    /\ ret' = NoRet
    /\ UNCHANGED <<configVars, asyncVars, clockVars, graphVars, vectorVars, sessionVars>>

----------------------------------------------------------------------------
(* The graph stores on their own                                           *)

InitConfig ==
    \/ backend = "file" /\ foreignKeys = FALSE /\ strictBind = FALSE /\ dbOpen = TRUE
    \/ backend = "sqlite" /\ foreignKeys \in BOOLEAN /\ strictBind \in BOOLEAN /\ dbOpen = TRUE

\* SQLiteManager.initialize catches a failure to load or open the database
\* and returns with db still null
InitConfigOrNoDb ==
    \/ InitConfig
    \/ backend = "sqlite" /\ foreignKeys = FALSE /\ strictBind = FALSE /\ dbOpen = FALSE

InitStores ==
    /\ nodes = <<>>
    /\ edges = <<>>
    /\ graph_nodes = <<>>
    /\ graph_edges = <<>>
    /\ graphFile = NoFile
    /\ entries = <<>>
    /\ vectorStoreState = <<>>
    /\ vectors = <<>>
    /\ extractor = "null"
    /\ messages = <<>>
    /\ immediateMessages = <<>>
    /\ sessionFile = <<>>
    /\ keywordMessages = <<>>
    /\ objectives = <<>>
    /\ highlights = <<>>
    /\ objects = [o \in 1..MaxObjects |-> "free"]
    /\ held = {}
    /\ cache = 0
    /\ disk = "absent"
    /\ temps = [t \in 1..MaxClock |-> "absent"]
    /\ writes = <<>>
    /\ reads = <<>>
    /\ currentModel = "claude"
    /\ currentAdapter = "claude"
    /\ requests = <<>>
    /\ switches = <<>>
    /\ isInitializing = FALSE
    /\ embeds = <<>>
    /\ saves = <<>>
    /\ loads = 0
    /\ restarts = 0
    /\ now = 1
    /\ idSeq = 0
    /\ ret = NoRet

InitGraph == InitConfig /\ InitStores

NextGraph ==
    \/ \E n \in NodeInputs : File_addNode(n)
    \/ \E e \in EdgeInputs : File_addEdge(e)
    \/ \E s \in StartInputs, d \in 0..MaxDepth, f \in FilterInputs : File_traverse(s, d, f)
    \/ \E t \in TypeInputs : File_getNodesByType(t)
    \/ File_clear
    \/ \E n \in NodeInputs : Sql_addNode(n)
    \/ \E e \in EdgeInputs : Sql_addEdge(e)
    \/ \E s \in StartInputs, d \in 0..MaxDepth, f \in FilterInputs : Sql_traverse(s, d, f)
    \/ \E t \in TypeInputs : Sql_getNodesByType(t)
    \/ Sql_clear
    \/ Return

SpecGraph == InitGraph /\ [][NextGraph]_vars

----------------------------------------------------------------------------
(* The vector stores on their own                                          *)

InitVector == InitGraph

NextVector ==
    \/ \E v \in VectorInputs : Mem_add(v.id, v.content)
    \/ \E q \in QueryInputs, k \in 0..MaxK : Mem_search(q, k)
    \/ Mem_clear
    \/ \E v \in VectorInputs : Sql_add(v.id, v.content)
    \/ \E q \in QueryInputs, k \in 0..MaxK : Sql_search(q, k)
    \/ Sql_vectorClear
    \/ Return

SpecVector == InitVector /\ [][NextVector]_vars

----------------------------------------------------------------------------
(* The token budget on its own                                             *)

ItemLists == UNION {[1..n -> ItemInputs] : n \in 0..MaxItems}

InitBudget == InitGraph

NextBudget ==
    \/ \E items \in ItemLists, budget \in 0..MaxBudget : fitToTokenBudget(items, budget)
    \/ Return

SpecBudget == InitBudget /\ [][NextBudget]_vars

----------------------------------------------------------------------------
(* Reciprocal rank fusion on its own                                       *)

ContentLists == UNION {[1..n -> FusionContents] : n \in 0..MaxList}

InitFusion == InitGraph

NextFusion ==
    \/ \E g \in ContentLists, v \in ContentLists : reciprocalRankFusion(g, v)
    \/ Return

SpecFusion == InitFusion /\ [][NextFusion]_vars

----------------------------------------------------------------------------
(* The retriever over the stores                                           *)

InitRetrieve == InitConfigOrNoDb /\ InitStores

NextRetrieve ==
    \/ \E n \in RetrieveNodeInputs : File_addNode(n)
    \/ \E e \in RetrieveEdgeInputs : File_addEdge(e)
    \/ \E v \in RetrieveVectorInputs : Mem_add(v.id, v.content)
    \/ dbOpen /\ \E n \in RetrieveNodeInputs : Sql_addNode(n)
    \/ dbOpen /\ \E e \in RetrieveEdgeInputs : Sql_addEdge(e)
    \/ dbOpen /\ \E v \in RetrieveVectorInputs : Sql_add(v.id, v.content)
    \/ \E b \in BudgetInputs : retrieve("auth", b)
    \/ Return

SpecRetrieve == InitRetrieve /\ [][NextRetrieve]_vars

----------------------------------------------------------------------------
(* The entity extractor over the graph store                               *)

InitExtract == InitGraph

NextExtract ==
    \/ \E c \in ContentInputs : extractEntities(c)
    \/ \E t \in TypeInputs : File_getNodesByType(t)
    \/ \E t \in TypeInputs : Sql_getNodesByType(t)
    \/ File_clear
    \/ Sql_clear
    \/ Return

SpecExtract == InitExtract /\ [][NextExtract]_vars

----------------------------------------------------------------------------
(* The entity extractor with its relations                                 *)

InitProcess == InitGraph

NextProcess ==
    \/ \E c \in ProcessInputs : processMessage(c)
    \/ Return

SpecProcess == InitProcess /\ [][NextProcess]_vars

----------------------------------------------------------------------------
(* The conversation: sendMessage over the stores                           *)

InitSend == InitConfigOrNoDb /\ InitStores

NextSend ==
    \/ \E c \in SendInputs, a \in AdapterInputs, r \in ReplyInputs : sendMessage(c, a, r)
    \/ Return

SpecSend == InitSend /\ [][NextSend]_vars

----------------------------------------------------------------------------
(* The message layers: what addMessage and clearSession keep               *)

InitMessages == InitGraph

NextMessages ==
    \/ \E m \in OrderedMessageInputs : addMessage(m)
    \/ clearSession
    \/ Return

SpecMessages == InitMessages /\ [][NextMessages]_vars

----------------------------------------------------------------------------
(* Sending while the model is switched                                     *)

InitSwitch == InitConfigOrNoDb /\ InitStores

NextSwitch ==
    \/ \E c \in SwitchSendInputs : Send_begin(c)
    \/ \E i \in 1..MaxTurns : Send_extract(i)
    \/ \E i \in 1..MaxTurns, r \in SwitchReplyInputs, ok \in BOOLEAN : Send_respond(i, r, ok)
    \/ \E m \in ModelInputs : Switch_begin(m)
    \/ \E j \in 1..MaxSwitches : Switch_end(j)

SpecSwitch == InitSwitch /\ [][NextSwitch]_vars

----------------------------------------------------------------------------
(* Overlapping embeddings                                                  *)

InitEmbed == InitGraph /\ backend = "sqlite"

NextEmbed ==
    \/ \E t \in EmbedInputs : Embed_begin(t)
    \/ \E i \in 1..MaxEmbeds, loadOk \in BOOLEAN : Embed_loaded(i, loadOk)
    \/ \E i \in 1..MaxEmbeds, runOk \in BOOLEAN : Embed_run(i, runOk)

SpecEmbed == InitEmbed /\ [][NextEmbed]_vars

----------------------------------------------------------------------------
(* The session file over a restart                                         *)

InitReload == InitGraph /\ backend = "file"

NextReload ==
    \/ Save_begin
    \/ \E i \in 1..MaxSaves : Save_end(i)
    \/ Restart
    \/ Load_end

SpecReload == InitReload /\ [][NextReload]_vars

----------------------------------------------------------------------------
(* The file storage on its own                                             *)

\* FileStorage is the same under every generation of the stores
InitStorage == InitGraph /\ backend = "file"

NextStorage ==
    \/ \E v \in DataInputs : Caller_create(v)
    \/ \E o \in 1..MaxObjects, v \in DataInputs : Caller_mutate(o, v)
    \/ Tick
    \/ \E o \in 1..MaxObjects : Storage_write(o)
    \/ \E i \in 1..MaxWrites : Storage_writeCopy(i)
    \/ \E i \in 1..MaxWrites : Storage_writeFile(i)
    \/ \E i \in 1..MaxWrites : Storage_rename(i)
    \/ Storage_read
    \/ \E i \in 1..MaxReads : Storage_readAccess(i)
    \/ \E i \in 1..MaxReads : Storage_readFile(i)
    \/ Storage_clearCache

SpecStorage == InitStorage /\ [][NextStorage]_vars

----------------------------------------------------------------------------
(* A session: the ContextBridge over its stores                            *)

Init == InitGraph

Next ==
    \/ \E m \in MessageInputs : addMessage(m)
    \/ clearSession
    \/ \E n \in SessionNodeInputs : File_addNode(n)
    \/ \E e \in SessionEdgeInputs : File_addEdge(e)
    \/ \E s \in StartInputs, f \in FilterInputs : File_traverse(s, MaxDepth, f)
    \/ \E t \in TypeInputs : File_getNodesByType(t)
    \/ \E v \in SessionVectorInputs : Mem_add(v.id, v.content)
    \/ \E q \in QueryInputs : Mem_search(q, MaxK)
    \/ \E n \in SessionNodeInputs : Sql_addNode(n)
    \/ \E e \in SessionEdgeInputs : Sql_addEdge(e)
    \/ \E s \in StartInputs, f \in FilterInputs : Sql_traverse(s, MaxDepth, f)
    \/ \E t \in TypeInputs : Sql_getNodesByType(t)
    \/ \E v \in SessionVectorInputs : Sql_add(v.id, v.content)
    \/ \E q \in QueryInputs : Sql_search(q, MaxK)
    \/ Return

Spec == Init /\ [][Next]_vars

----------------------------------------------------------------------------
(* What the claims speak of: the stored graph of the running generation    *)

\* The (from, to, type) triples of the stored edges, in stored order
StoredEdgeKeys ==
    IF backend = "file"
    THEN [i \in 1..Len(edges) |-> <<edges[i].from, edges[i].to, edges[i].type>>]
    ELSE [i \in 1..Len(graph_edges) |->
            <<graph_edges[i].source, graph_edges[i].target, graph_edges[i].type>>]

\* The undirected adjacency implied by the edges
Adjacent(x, y) ==
    \E i \in 1..Len(StoredEdgeKeys) :
        \/ StoredEdgeKeys[i][1] = x /\ StoredEdgeKeys[i][2] = y
        \/ StoredEdgeKeys[i][1] = y /\ StoredEdgeKeys[i][2] = x

RECURSIVE Within(_, _)
\* The ids at shortest-path distance <= k from start
Within(start, k) ==
    IF k = 0 THEN {start}
    ELSE LET W == Within(start, k - 1)
         IN W \cup {y \in Ids : \E x \in W : Adjacent(x, y)}

ResultIds == {ret.result[i].id : i \in 1..Len(ret.result)}

Traversed == ret.op = "traverse" /\ ~ret.threw

\* C1: traverse(start, n) never returns a node whose shortest-path distance
\* from start, over the undirected adjacency of the edges, exceeds n.
C1_TraverseDepthBound ==
    ret.op = "traverse" => ResultIds \subseteq Within(ret.startId, ret.depth)

\* C1 witness: a traversal of depth 1 returned the start node while a stored
\* node lies at distance exactly 2 and was left out.
C1_Witness ==
    /\ Traversed
    /\ ret.depth = 1
    /\ ret.startId \in ResultIds
    /\ \E i \in 1..Len(StoredNodes) :
          /\ StoredNodes[i].id \in Within(ret.startId, 2) \ Within(ret.startId, 1)
          /\ StoredNodes[i].id \notin ResultIds

\* C2: traverse returns every stored node whose type passes the filter and
\* whose shortest undirected distance from start is <= depth.
C2_TraverseComplete ==
    Traversed =>
        \A i \in 1..Len(StoredNodes) :
            (StoredNodes[i].id \in Within(ret.startId, ret.depth)
               /\ PassesFilter(ret.nodeTypes, StoredNodes[i]))
            => StoredNodes[i] \in SeqRange(ret.result)

\* C3: traverse terminates on every finite graph (it makes at most one call
\* or loop pass for the start and one per end of each stored edge) and its
\* result contains each node at most once.
C3_TraverseTerminatesOnce ==
    ret.op = "traverse" =>
        /\ ret.calls <= 1 + 2 * Len(StoredEdgeKeys)
        /\ \A i, j \in 1..Len(ret.result) :
              i # j => ret.result[i].id # ret.result[j].id

\* C3 witness: a traversal over the cycle a-b, b-c, c-a that came back to
\* visited ids and returned the start node.
C3_Witness ==
    /\ Traversed
    /\ ret.depth = 2
    /\ Adjacent("a", "b") /\ Adjacent("b", "c") /\ Adjacent("c", "a")
    /\ ret.startId \in ResultIds
    /\ ret.calls >= 6

\* C4: traverse from a start id that is the id of no stored node returns an
\* empty sequence, dangling edges or not.
C4_MissingStartIsEmpty ==
    (Traversed /\ ret.startId \notin {StoredNodes[i].id : i \in 1..Len(StoredNodes)})
        => ret.result = <<>>

\* C5: the edge store holds at most one edge per (from, to, type) triple.
C5_EdgeKeyUnique ==
    \A i, j \in 1..Len(StoredEdgeKeys) : i # j => StoredEdgeKeys[i] # StoredEdgeKeys[j]

\* C7: getNodesByType(type) returns exactly the stored nodes of that type,
\* most recently created first.
C7_NodesByTypeMostRecentFirst ==
    ret.op = "getNodesByType" =>
        /\ IsPermutationOf(ret.result, SelectSeq(StoredNodes, LAMBDA n : n.type = ret.type))
        /\ IsDescByCreatedAt(ret.result)

----------------------------------------------------------------------------
(* What the claims speak of: the vector store of the running generation    *)

StoredEntries == IF backend = "file" THEN entries ELSE vectors

\* The score search gave the stored entry at position i
ScoreOf(i) == cosineSimilarity(ret.queryEmbedding, StoredEntries[i].embedding)

\* x >= y and x = y on scores, as IEEE 754 has them: false when either is NaN
ScoreGeq(x, y) == ScoreDiff(x, y) \in {"pos", "zero"}
ScoreEq(x, y) == ScoreDiff(x, y) = "zero"

Searched == ret.op = "search" /\ ~ret.threw

\* C6: the store holds at most one entry per id; right after add(id, content)
\* the entry with that id carries that content; search never returns two
\* entries with the same id.
C6_OneEntryPerId ==
    /\ \A i, j \in 1..Len(StoredEntries) :
         StoredEntries[i].id = StoredEntries[j].id => i = j
    /\ (ret.op = "add" /\ ~ret.threw) =>
         \A i \in 1..Len(StoredEntries) :
            StoredEntries[i].id = ret.id => StoredEntries[i].content = ret.content
    /\ Searched =>
         \A i, j \in 1..Len(ret.result) :
            ret.result[i].id = ret.result[j].id => i = j

\* C9: search(query, k) returns at most k entries; they are the
\* min(k, size) stored entries of highest similarity, in descending score
\* order, equal scores in insertion order; on an empty store the result is
\* empty.
C9_SearchTopK ==
    Searched =>
        LET order == ret.order
            n == Len(StoredEntries)
            Returned == {order[i] : i \in 1..Len(order)}
        IN /\ Len(order) <= ret.k
           /\ Len(order) = (IF ret.k < n THEN ret.k ELSE n)
           /\ \A i, j \in 1..Len(order) : i < j =>
                /\ order[i] # order[j]
                /\ ScoreGeq(ScoreOf(order[i]), ScoreOf(order[j]))
                /\ ScoreEq(ScoreOf(order[i]), ScoreOf(order[j])) => order[i] < order[j]
           /\ \A x \in (1..n) \ Returned : \A y \in Returned :
                /\ ScoreGeq(ScoreOf(y), ScoreOf(x))
                /\ ScoreEq(ScoreOf(y), ScoreOf(x)) => y < x
           /\ n = 0 => ret.result = <<>>

\* C10: when the embedding provider fails, add and search fail with an
\* error; no entry with an all-zero embedding is stored and search ranks
\* against no all-zero query vector.
C10_EmbeddingFailureSurfaces ==
    /\ (ret.op \in {"add", "search"} /\ ret.embedFailed) => ret.threw
    /\ \A i \in 1..Len(vectors) : vectors[i].embedding # ZeroVector
    /\ (backend = "sqlite" /\ Searched) => ret.queryEmbedding # ZeroVector

\* C8: when clearSession has completed, the graph store and the vector
\* store are both empty: no node, edge or vector entry added before the
\* clear is left for a later traverse, getNodesByType, search or retrieve.
C8_ClearSessionEmptiesStores ==
    ret.op = "clearSession" =>
        /\ StoredNodes = <<>>
        /\ StoredEdgeKeys = <<>>
        /\ StoredEntries = <<>>

\* C11: cosineSimilarity is 0.0, never NaN, when either argument is the
\* all-zero vector; every score that orders a search result is a defined
\* number.
C11_CosineZeroIsZero ==
    Searched =>
        \A i \in 1..Len(StoredEntries) :
            /\ ~ScoreOf(i).nan
            /\ (ret.queryEmbedding = ZeroVector \/ StoredEntries[i].embedding = ZeroVector)
                   => ScoreOf(i).sq = 0

\* The first capture group that captured text, the full match when none did
FirstNonEmptyGroup(match) ==
    IF match.g1 # <<>> THEN match.g1
    ELSE IF match.g2 # <<>> THEN match.g2
    ELSE match.full

\* C12: every match found by extractEntities gives one node whose content
\* is the first non-empty capture group of the match (else the full match);
\* "I want to build a login page" gives exactly one node, an Intent with
\* content "build a login page".
C12_ContentIsFirstGroup ==
    ret.op = "extractEntities" =>
        /\ Len(ret.extracted) = Len(ret.matches)
        /\ \A i \in 1..Len(ret.matches) :
             ret.extracted[i].content = FirstNonEmptyGroup(ret.matches[i])
        /\ ret.content = <<"i", "want", "to", "build", "a", "login", "page">> =>
             /\ Len(ret.extracted) = 1
             /\ ret.extracted[1].type = "Intent"
             /\ ret.extracted[1].content = <<"build", "a", "login", "page">>

\* C13: fitToTokenBudget returns a prefix of items: it keeps items while
\* the running token count stays within budget and stops at the first item
\* that would overflow; nothing after an omitted item is included, and the
\* token count of the result never exceeds budget.
C13_FitIsPrefix ==
    ret.op = "fitToTokenBudget" =>
        /\ ret.result = SubSeq(ret.items, 1, Len(ret.result))
        /\ \A j \in 1..Len(ret.kept) : ret.kept[j] = j
        /\ SumSeq([j \in 1..Len(ret.result) |-> countTokens(ret.result[j])]) <= ret.budget

Fused == ret.op = "reciprocalRankFusion"

\* How often a content string occurs in a result list
Occurrences(results, c) == Cardinality({i \in 1..Len(results) : results[i].content = c})

\* The fused entry of a content string
FusedOf(c) == ret.fused[CHOOSE i \in 1..Len(ret.fused) : ret.fused[i].key = c]

FusedPlace(c) == CHOOSE i \in 1..Len(ret.fused) : ret.fused[i].key = c

RankZeroInBoth ==
    /\ Fused
    /\ ret.graphResults # <<>>
    /\ ret.vectorResults # <<>>
    /\ ret.graphResults[1].content = ret.vectorResults[1].content

\* C16: a content string at rank 0 in both the graph list and the vector
\* list has a fused score strictly above 1/(60+0+1), the score of a content
\* string that appears at rank 0 in only one list, and is ordered before
\* every content string that appears in only one list.
C16_BothRankZeroWins ==
    RankZeroInBoth =>
        LET c == ret.graphResults[1].content IN
        /\ FusedOf(c).score > Rrf(0)
        /\ \A i \in 1..Len(ret.fused) :
             (Occurrences(ret.graphResults, ret.fused[i].key)
                + Occurrences(ret.vectorResults, ret.fused[i].key) = 1)
                => FusedPlace(c) < i

C16_Witness ==
    /\ RankZeroInBoth
    /\ Len(ret.fused) = 3
    /\ Occurrences(ret.graphResults, ret.graphResults[1].content) = 1

\* The place at which a content string is first seen: graph results first,
\* then vector results, each in list order
FirstSeen(c) ==
    LET all == ret.graphResults \o ret.vectorResults
    IN CHOOSE i \in 1..Len(all) :
          all[i].content = c /\ \A j \in 1..(i - 1) : all[j].content # c

\* C17: the list returned by reciprocalRankFusion holds each distinct
\* content string exactly once, in descending fused score, equal scores in
\* first-seen order (graph results before vector results).
C17_FusedOrder ==
    Fused =>
        /\ Len(ret.result) = Len(ret.fused)
        /\ {ret.result[i].content : i \in 1..Len(ret.result)}
             = {r.content : r \in SeqRange(ret.graphResults \o ret.vectorResults)}
        /\ \A i, j \in 1..Len(ret.result) : i < j =>
             /\ ret.result[i].content # ret.result[j].content
             /\ ret.fused[i].score >= ret.fused[j].score
             /\ ret.fused[i].score = ret.fused[j].score =>
                  FirstSeen(ret.result[i].content) < FirstSeen(ret.result[j].content)

C17_Witness ==
    /\ Fused
    /\ Len(ret.fused) = 3
    /\ ret.fused[1].score > ret.fused[2].score
    /\ ret.fused[2].score = ret.fused[3].score
    /\ ret.fused[2].result.source = "graph"
    /\ ret.fused[3].result.source = "vector"

Retrieved == ret.op = "retrieve" /\ ~ret.threw

\* C14: for every token budget >= 0 the text retrieve returns, blank-line
\* separators included, has an estimated token count of at most the budget.
C14_RetrievedTextFitsBudget ==
    (Retrieved /\ ret.budget >= 0) =>
        CeilDiv(ret.length, CHARS_PER_TOKEN) <= ret.budget

\* C15: when an Intent node exists, the depth-2 traversal of graph search
\* starts from the most recently created Intent, and the Intent results are
\* ranked by recency: the most recent Intent has rank 0 and score 1.0.
C15_LatestIntentFirst ==
    (Retrieved /\ ret.intents # <<>>) =>
        /\ \A i \in 1..Len(ret.intents) :
             ret.started[1].createdAt >= ret.intents[i].createdAt
        /\ \A i, j \in 1..Len(ret.intents) :
             i < j => ret.intents[i].createdAt >= ret.intents[j].createdAt
        /\ ret.graphResults[1].score = 100

\* C18: retrieve returns the empty string and raises no error whenever the
\* token budget is <= 0, and whenever both the graph results and the vector
\* results are empty.
C18_EmptyRetrieve ==
    /\ (ret.op = "retrieve" /\ ret.budget <= 0) => (~ret.threw /\ ret.length = 0)
    /\ (Retrieved /\ ret.graphResults = <<>> /\ ret.vectorResults = <<>>) =>
          (ret.selected = <<>> /\ ret.length = 0)

\* C19: when the embedding call of vector search fails during retrieve, the
\* failure stays inside retrieve and counts as an empty vector result:
\* retrieve does not throw and returns the graph results that fit.
C19_VectorFailureIsEmpty ==
    (ret.op = "retrieve" /\ ret.embedFailed) =>
        /\ ~ret.threw
        /\ ret.vectorResults = <<>>
        /\ \A i \in 1..Len(ret.fused) : ret.fused[i].result.source = "graph"

\* sendMessage has returned (or thrown) with an adapter that answers
Sent == ret # NoRet /\ ret.op = "sendMessage" /\ ret.adapter = "ok"

\* C20: whatever the memory components do, a sendMessage whose adapter
\* answers has handed the user's message to the adapter and has recorded
\* the reply as the last message of the conversation; nothing is thrown.
C20_MemoryFailureNeverBlocks ==
    Sent =>
        /\ ~ret.threw
        /\ ret.sent
        /\ ret.recorded
        /\ messages # <<>>
        /\ messages[Len(messages)] = [role |-> "assistant", content |-> ret.reply]

\* sendMessage ran to its end: the reply is recorded and nothing was thrown
\* or caught on the way
Completed == Sent /\ ret.recorded /\ ~ret.caught /\ ~ret.threw

\* C21: when sendMessage completes, the vector store holds an entry with the
\* text of the user's message and an entry with the text of the reply.
C21_MessagesReachVectorStore ==
    Completed =>
        /\ \E i \in 1..Len(StoredEntries) : StoredEntries[i].content = ret.content
        /\ \E i \in 1..Len(StoredEntries) : StoredEntries[i].content = ret.reply

\* C22: the immediate context holds at most MAX_MESSAGES messages, and they
\* are the last of the messages added since the last clear, in the order
\* they were added (ContextBridge.messages is that list: addMessage pushes
\* to both, clearSession empties both).
C22_ImmediateIsLastFive ==
    /\ Len(immediateMessages) <= MAX_MESSAGES
    /\ immediateMessages = Last(messages, MAX_MESSAGES)

\* More than MAX_MESSAGES distinguishable messages were added: one was shifted out
C22_Witness ==
    /\ Len(messages) > MAX_MESSAGES
    /\ Len(immediateMessages) = MAX_MESSAGES
    /\ messages[1] # messages[2]
    /\ immediateMessages[1] = messages[Len(messages) - MAX_MESSAGES + 1]

----------------------------------------------------------------------------
(* What the claims speak of: the file storage                              *)

\* What a read of the filename returns when it runs now, alone
ReadResult ==
    IF cache # 0 THEN DeepCopy(objects[cache])
    ELSE IF disk = "absent" THEN "default"
    ELSE DeepCopy(disk)

\* The write calls that have taken their copy of the data
Copied == {i \in 1..Len(writes) : writes[i].pc # "mkdir"}

\* C23: the cached value is no object a caller holds, so mutating what read
\* returned cannot reach it; and what a write has put into the cache and
\* into its text is the data as it was when it was passed to write,
\* whatever the caller did to the object afterwards.
C23_ReadWriteKeepCopies ==
    /\ cache # 0 => cache \notin held
    /\ \A i \in Copied : writes[i].text = Stringify(writes[i].given)

\* Every write and read call made has run to its end
Settled ==
    /\ writes # <<>>
    /\ \A i \in 1..Len(writes) : writes[i].pc \in {"done", "failed"}
    /\ \A i \in 1..Len(reads) : reads[i].pc = "done"

\* C29: once all the write calls have completed, the file holds the text of
\* the write issued last, and a read returns that same data.
C29_LastWriteWins ==
    Settled =>
        /\ disk = writes[Len(writes)].text
        /\ ReadResult = DeepCopy(disk)

----------------------------------------------------------------------------
(* What the claims speak of: the relations processMessage extracts         *)

\* processMessage has returned
Processed == ret # NoRet /\ ret.op = "processMessage" /\ ~ret.threw

\* The nodes of the recent-nodes window
RecentSet == SeqRange(ret.recent)

\* The edge types with a cue phrase in the text
CuedTypes ==
    {RELATION_PATTERNS[k].type : k \in
        {x \in 1..Len(RELATION_PATTERNS) :
            \E i \in 1..Len(RELATION_PATTERNS[x].patterns) :
                Test(RELATION_PATTERNS[x].patterns[i], ret.content)}}

\* s and m are the second-most-recently and the most recently created of
\* the recent nodes (either way round among nodes created at the same time)
LatestPair(s, m) ==
    /\ s # m
    /\ \A x \in RecentSet : x.createdAt <= m.createdAt
    /\ \A x \in RecentSet \ {m} : x.createdAt <= s.createdAt

\* C24: with at least two recent nodes, each edge type with a cue in the
\* text gets an edge from the second-most-recently created recent node to
\* the most recently created one; with fewer than two recent nodes no edge
\* is added.
C24_CueConnectsLatestTwo ==
    Processed /\ ret.entities # <<>> =>
        IF Cardinality(RecentSet) >= 2
        THEN \A type \in CuedTypes :
                \E s \in RecentSet, m \in RecentSet :
                    /\ LatestPair(s, m)
                    /\ \E i \in 1..Len(ret.added) :
                          ret.added[i] = RelationEdge(s.id, m.id, type)
        ELSE ret.added = <<>>

\* C25: the recent-nodes window holds each node once, and no stored edge
\* goes from a node to itself.
C25_NoSelfEdge ==
    /\ Processed =>
          \A i, j \in 1..Len(ret.recent) : i # j => ret.recent[i].id # ret.recent[j].id
    /\ \A i \in 1..Len(StoredEdgeKeys) : StoredEdgeKeys[i][1] # StoredEdgeKeys[i][2]

\* The best (lowest) rank of a content string in the graph list
BestGraphRank(c) ==
    (CHOOSE i \in 1..Len(ret.graphResults) :
        /\ ret.graphResults[i].content = c
        /\ \A j \in 1..Len(ret.graphResults) :
              ret.graphResults[j].content = c => i <= j) - 1

\* C26: a content string that occurs more than once in the graph list has a
\* fused score of at least 1/(60+r+1) for its best rank r there; a later
\* duplicate does not lower it.
C26_DuplicateKeepsBestRank ==
    Fused =>
        \A i \in 1..Len(ret.graphResults) :
            LET c == ret.graphResults[i].content IN
            Occurrences(ret.graphResults, c) >= 2 => FusedOf(c).score >= Rrf(BestGraphRank(c))

----------------------------------------------------------------------------
(* C27: the assistant message of a sendMessage carries the model whose     *)
(* adapter produced the reply, the model that was current when the request *)
(* was sent, also when a switchModel completes while the request is in     *)
(* flight.                                                                 *)

Answered(i) == i \in 1..Len(requests) /\ requests[i].pc = "done"

SwitchedInFlight ==
    \E i \in 1..Len(requests) :
        /\ Answered(i)
        /\ requests[i].adapter # requests[i].user.model

C27_ReplyCarriesSendingModel ==
    \A i \in 1..Len(requests) :
        Answered(i) =>
            /\ messages[requests[i].at].role = "assistant"
            /\ messages[requests[i].at].model = requests[i].adapter

----------------------------------------------------------------------------
(* C28: a generateEmbedding that starts while another call's initialize is *)
(* loading the model waits for that load: it does not throw 'Embedding     *)
(* model not initialized' (and so return the zero vector) while the load   *)
(* it met has not failed.                                                  *)

Loading == \E j \in 1..Len(embeds) : embeds[j].pc \in {"load1", "load2"}

StartedDuringLoad(i) == i \in 1..Len(embeds) /\ embeds[i].during

C28_WaitsForLoad ==
    \A i \in 1..Len(embeds) :
        StartedDuringLoad(i) /\ Loading => ~embeds[i].threw


----------------------------------------------------------------------------
(* C30: once every addMessage has returned, the persisted list has at most *)
(* 100 messages and is the last min(100, n) messages of the in-memory list *)
(* in order; after a reload the in-memory list is the persisted one and    *)
(* the immediate context holds its last 5 messages.                        *)

Quiet == saves = <<>> /\ loads = 0

Reloaded == Quiet /\ restarts > 0

C30_PersistedIsLastHundred ==
    Quiet =>
        /\ Len(sessionFile) <= SavedMessagesLimit
        /\ sessionFile = JsonMessages(Last(messages, SavedMessagesLimit))

C30_ReloadRestores ==
    /\ C30_PersistedIsLastHundred
    /\ Quiet => immediateMessages = Last(messages, MAX_MESSAGES)


============================================================================
